---- MODULE Spec2Model ----
(***************************************************************************)
(* Model of skills/continuous-learning-v2/scripts/instinct-cli.py: the     *)
(* instinct stores (directories of text files), the record parser, the     *)
(* source loader, the aggregator and the promotion commands.               *)
(*                                                                         *)
(* Text is a sequence of tokens.  A token is either one of the characters  *)
(* the code looks at (space, newline, colon, the two quote characters, the *)
(* path separator) or a maximal run of other characters (a word), or a     *)
(* number literal.  Every string operation of the code (split, strip,      *)
(* join, in) is modelled on token sequences.                               *)
(***************************************************************************)
EXTENDS Integers, Sequences, FiniteSets, TLC

-----------------------------------------------------------------------------
(* Tokens *)

W(s) == [c |-> s, n |-> 0, d |-> 1, x |-> <<>>]
\* a decimal literal n/d, such as 0.9
Num(n, d) == [c |-> "#", n |-> n, d |-> d, x |-> <<>>]
\* the digits that repr() prints for a float x that no decimal of two places
\* denotes, such as 0.7999999999999999
Repr(x) == [c |-> "#", n |-> 0, d |-> 0, x |-> x]

SP == W(" ")
NL == W("\n")
COLON == W(":")
DQ == W("\"")
SQ == W("'")
SLASH == W("/")
DOTDOT == W("..")
SEP == W("---")

Whitespace == {SP, NL}

IsNum(tok) == tok.c = "#"

-----------------------------------------------------------------------------
(***************************************************************************)
(* Python floats: IEEE-754 binary64 with round to nearest, ties to even.   *)
(* A float is held exactly as a fixed-point number of Limbs digits to the  *)
(* base 2^16, the first digit being the integer part; every result is      *)
(* rounded to the 53 significant bits of a double.  The values of the      *)
(* model (confidences, their sums and means) lie between 2^-26 and 2^16,   *)
(* where this representation is exact.                                     *)
(***************************************************************************)
Base == 65536
LimbBits == 16
Limbs == 6
Precision == 53

\* the digits, computed once
Digits(x) == SubSeq(x, 1, Limbs)

Zero == Digits([i \in 1..Limbs |-> 0])
FromInt(n) == Digits([i \in 1..Limbs |-> IF i = 1 THEN n ELSE 0])

CarryInto(x, y, i) ==
    \E j \in (i + 1)..Limbs :
        /\ x[j] + y[j] >= Base
        /\ \A k \in (i + 1)..(j - 1) : x[k] + y[k] = Base - 1

\* the exact sum
AddFixed(x, y) ==
    Digits([i \in 1..Limbs |-> (x[i] + y[i] + (IF CarryInto(x, y, i) THEN 1 ELSE 0)) % Base])

RECURSIVE Rem(_, _, _)
Rem(x, n, i) == IF i = 0 THEN 0 ELSE (Rem(x, n, i - 1) * Base + x[i]) % n

\* the quotient by an int n > 0, cut after the last digit
DivFixed(x, n) == Digits([i \in 1..Limbs |-> (Rem(x, n, i - 1) * Base + x[i]) \div n])

TopLimb(x) == CHOOSE i \in 1..Limbs : x[i] # 0 /\ \A j \in 1..(i - 1) : x[j] = 0
TopBit(v) == CHOOSE t \in 0..(LimbBits - 1) : 2^t <= v /\ v < 2^(t + 1)

\* bits are counted from the top bit of the first digit, which is bit 0
LimbOf(p) == (p \div LimbBits) + 1
Weight(p) == 2^((LimbBits - 1) - (p % LimbBits))
Bit(x, p) == IF LimbOf(p) > Limbs THEN 0 ELSE (x[LimbOf(p)] \div Weight(p)) % 2
ZeroBelow(x, p) ==
    \/ LimbOf(p) > Limbs
    \/ /\ x[LimbOf(p)] % Weight(p) = 0
       /\ \A i \in (LimbOf(p) + 1)..Limbs : x[i] = 0

\* the last bit of the significand
LastBit(x) ==
    LimbBits * (TopLimb(x) - 1) + ((LimbBits - 1) - TopBit(x[TopLimb(x)])) + (Precision - 1)

Truncate(x, p) ==
    Digits([i \in 1..Limbs |-> IF i < LimbOf(p) THEN x[i]
                               ELSE IF i = LimbOf(p) THEN x[i] - (x[i] % Weight(p))
                               ELSE 0])
Ulp(p) == Digits([i \in 1..Limbs |-> IF i = LimbOf(p) THEN Weight(p) ELSE 0])

RoundUp(x, p, sticky) ==
    /\ Bit(x, p + 1) = 1
    /\ \/ sticky
       \/ ~ZeroBelow(x, p + 1)
       \/ Bit(x, p) = 1

RoundAt(x, p, sticky) ==
    IF LimbOf(p) > Limbs THEN x
    ELSE IF RoundUp(x, p, sticky) THEN AddFixed(Truncate(x, p), Ulp(p))
    ELSE Truncate(x, p)

\* sticky: the exact value is above x by less than the last bit of x
Round(x, sticky) == IF x = Zero THEN Zero ELSE RoundAt(x, LastBit(x), sticky)

\* float("0.9"): the double nearest to the decimal n/d
FromRatio(n, d) == Round(DivFixed(FromInt(n), d), Rem(FromInt(n), d, Limbs) # 0)

\* a + b
FAdd(a, b) == Round(AddFixed(a, b), FALSE)

\* a / n for an int n > 0
FDivInt(a, n) == Round(DivFixed(a, n), Rem(a, n, Limbs) # 0)

\* a >= b, a > b
FGeq(a, b) ==
    \/ a = b
    \/ \E i \in 1..Limbs : a[i] > b[i] /\ \A j \in 1..(i - 1) : a[j] = b[j]
FGt(a, b) == FGeq(a, b) /\ a # b

RECURSIVE GCD(_, _)
GCD(a, b) == IF b = 0 THEN a ELSE GCD(b, a % b)

-----------------------------------------------------------------------------
(* String operations on token sequences *)

\* str.strip(chars): drop the leading and trailing tokens that are in chars
RECURSIVE LStrip(_, _)
LStrip(s, chars) ==
    IF s # <<>> /\ Head(s) \in chars THEN LStrip(Tail(s), chars) ELSE s

RECURSIVE RStrip(_, _)
RStrip(s, chars) ==
    IF s # <<>> /\ s[Len(s)] \in chars THEN RStrip(SubSeq(s, 1, Len(s) - 1), chars) ELSE s

Strip(s, chars) == RStrip(LStrip(s, chars), chars)

\* tok in s
Contains(s, tok) == \E i \in 1..Len(s) : s[i] = tok

\* s.find(tok): the first index of tok in s (only used when Contains)
IndexOf(s, tok) == CHOOSE i \in 1..Len(s) : s[i] = tok /\ \A j \in 1..(i - 1) : s[j] # tok

\* s.split(tok): the pieces of s between the occurrences of tok
RECURSIVE Split(_, _)
Split(s, tok) ==
    IF ~Contains(s, tok) THEN <<s>>
    ELSE LET i == IndexOf(s, tok)
         IN <<SubSeq(s, 1, i - 1)>> \o Split(SubSeq(s, i + 1, Len(s)), tok)

\* tok.join(pieces)
RECURSIVE Join(_, _)
Join(pieces, tok) ==
    IF pieces = <<>> THEN <<>>
    ELSE IF Len(pieces) = 1 THEN pieces[1]
    ELSE pieces[1] \o <<tok>> \o Join(Tail(pieces), tok)

\* the characters of a token sequence as one string (a dictionary key)
RECURSIVE Chars(_)
Chars(s) == IF s = <<>> THEN "" ELSE Head(s).c \o Chars(Tail(s))

-----------------------------------------------------------------------------
(* Dictionaries: functions from key strings to values *)

EmptyDict == <<>>

Put(cur, k, v) == [kk \in (DOMAIN cur) \cup {k} |-> IF kk = k THEN v ELSE cur[kk]]

Has(rec, k) == k \in DOMAIN rec

\* dict.get(k, default)
Get(rec, k, default) == IF k \in DOMAIN rec THEN rec[k] ELSE default

\* truthiness of dict.get(k) for a string value
Truthy(rec, k) == k \in DOMAIN rec /\ rec[k] # <<>>

-----------------------------------------------------------------------------
(* Record Parser *)

\* the loop entered as if a header had been opened
ParseInitInHeader ==
    [instincts |-> <<>>, current |-> EmptyDict, in_frontmatter |-> TRUE,
     content_lines |-> <<>>, raised |-> FALSE]

ParseInit ==
    [instincts |-> <<>>, current |-> EmptyDict, in_frontmatter |-> FALSE,
     content_lines |-> <<>>, raised |-> FALSE]

\* the content stored as it was collected, blank lines around it included
CloseBlockUntrimmed(st) ==
    Put(st.current, "content", Join(st.content_lines, NL))

\* '\n'.join(content_lines).strip() stored under 'content'
CloseBlock(st) ==
    Put(st.current, "content", Strip(Join(st.content_lines, NL), Whitespace))

\* float(value): a number literal, anything else raises ValueError; the
\* digits printed by repr() give back the float they were printed from
FloatOk(value) == Len(value) = 1 /\ IsNum(value[1])
Float(value) ==
    IF value[1].d = 0 THEN value[1].x ELSE FromRatio(value[1].n, value[1].d)

\* current[key] = value, or float(value) for the key confidence
SetField(st, key, value) ==
    IF key = "confidence" THEN
        IF FloatOk(value)
        THEN [st EXCEPT !.current = Put(st.current, key, Float(value))]
        ELSE [st EXCEPT !.raised = TRUE]
    ELSE [st EXCEPT !.current = Put(st.current, key, value)]

\* one iteration of the loop over content.split('\n')
ParseLine(line, st) ==
    IF Strip(line, Whitespace) = <<SEP>> THEN
        IF st.in_frontmatter THEN
            [st EXCEPT !.in_frontmatter = FALSE]
        ELSE
            [st EXCEPT !.in_frontmatter = TRUE,
                       !.instincts = IF DOMAIN st.current # {}
                                     THEN Append(st.instincts, CloseBlock(st))
                                     ELSE st.instincts,
                       !.current = EmptyDict,
                       !.content_lines = <<>>]
    ELSE IF st.in_frontmatter THEN
        IF Contains(line, COLON) THEN
            SetField(st,
                     Chars(Strip(SubSeq(line, 1, IndexOf(line, COLON) - 1), Whitespace)),
                     Strip(Strip(Strip(SubSeq(line, IndexOf(line, COLON) + 1, Len(line)),
                                       Whitespace), {DQ}), {SQ}))
        ELSE st
    ELSE [st EXCEPT !.content_lines = Append(st.content_lines, line)]

RECURSIVE ParseLoop(_, _, _)
ParseLoop(lines, i, st) ==
    IF i > Len(lines) \/ st.raised THEN st
    ELSE ParseLoop(lines, i + 1, ParseLine(lines[i], st))

\* the return without the filter on the ids
KeepAll(recs) == recs

\* the records of a sequence that have a non-empty id
RECURSIVE WithId(_)
WithId(recs) ==
    IF recs = <<>> THEN <<>>
    ELSE IF Truthy(Head(recs), "id") THEN <<Head(recs)>> \o WithId(Tail(recs))
    ELSE WithId(Tail(recs))

\* a parser that swallows the ValueError of float() and returns the blocks it
\* had closed before
ParseEndKeeping(st) ==
    [raised |-> FALSE,
     instincts |-> WithId(IF DOMAIN st.current # {} /\ ~st.raised
                          THEN Append(st.instincts, CloseBlock(st))
                          ELSE st.instincts)]

\* what follows the loop: the last block, then the filter on the ids
ParseEnd(st) ==
    IF st.raised THEN [raised |-> TRUE, instincts |-> <<>>]
    ELSE [raised |-> FALSE,
          instincts |-> WithId(IF DOMAIN st.current # {}
                               THEN Append(st.instincts, CloseBlock(st))
                               ELSE st.instincts)]

\* parse_instinct_file(content): [raised, instincts]
parse_instinct_file(content) == ParseEnd(ParseLoop(Split(content, NL), 1, ParseInit))

-----------------------------------------------------------------------------
(* Storage layout.  A directory path is a sequence of names below           *)
(* HOMUNCULUS_DIR; a store directory holds a listing of *.yaml files, in    *)
(* the order glob() returns them.                                           *)

Projects == {"p1", "p2"}

PERSONAL == <<W("personal")>>
INHERITED == <<W("inherited")>>
PROJECT == <<W("project")>>
GLOBAL == <<W("global")>>

GLOBAL_INSTINCTS_DIR == <<"instincts">>
GLOBAL_PERSONAL_DIR == <<"instincts", "personal">>
GLOBAL_INHERITED_DIR == <<"instincts", "inherited">>
PROJECTS_DIR == <<"projects">>

PersonalDir(pid) == PROJECTS_DIR \o <<pid, "instincts", "personal">>
InheritedDir(pid) == PROJECTS_DIR \o <<pid, "instincts", "inherited">>

GlobalDirs == {GLOBAL_PERSONAL_DIR, GLOBAL_INHERITED_DIR}
ProjectDirs == {PersonalDir(p) : p \in Projects} \cup {InheritedDir(p) : p \in Projects}
StoreDirs == GlobalDirs \cup ProjectDirs

\* the directories that exist and hold no instinct files
OtherDirs ==
    {<<>>, GLOBAL_INSTINCTS_DIR, PROJECTS_DIR}
    \cup {PROJECTS_DIR \o <<p>> : p \in Projects}
    \cup {PROJECTS_DIR \o <<p, "instincts">> : p \in Projects}

\* the project dict detect_project returns
ProjectDict(pid) ==
    IF pid = "global"
    THEN [id |-> "global", instincts_personal |-> GLOBAL_PERSONAL_DIR,
          instincts_inherited |-> GLOBAL_INHERITED_DIR]
    ELSE [id |-> pid, instincts_personal |-> PersonalDir(pid),
          instincts_inherited |-> InheritedDir(pid)]

VARIABLES
    files,          \* [StoreDirs -> listing of [name, text]]
    registry_file,  \* REGISTRY_FILE: [state, pids]
    last,           \* the command of the running process: its arguments and its outcome
    call            \* the last call of a function of the parser, the loader or the
                    \* analyses: its arguments and what it returned

vars == <<files, registry_file, last, call>>

-----------------------------------------------------------------------------
(* Source Loader *)

\* the annotation with the scope set to the label in every record
AnnotateOverwriting(inst, file, source_type, scope_label) ==
    Put(Put(Put(Put(inst, "_source_file", file), "_source_type", source_type),
            "_scope_label", scope_label), "scope", scope_label)

Annotate(inst, file, source_type, scope_label) ==
    LET a == Put(Put(Put(inst, "_source_file", file), "_source_type", source_type),
                 "_scope_label", scope_label)
    IN  IF Has(inst, "scope") THEN a ELSE Put(a, "scope", scope_label)

\* the records of one file, annotated; none when the parser raised
AnnotateAll(parsed, file, source_type, scope_label) ==
    IF parsed.raised THEN <<>>
    ELSE [k \in 1..Len(parsed.instincts) |->
             Annotate(parsed.instincts[k], file, source_type, scope_label)]

\* the body of the loop over directory.glob("*.yaml"), for the listing fs of directory
RECURSIVE LoadFiles(_, _, _, _)
LoadFiles(directory, fs, source_type, scope_label) ==
    IF fs = <<>> THEN <<>>
    ELSE AnnotateAll(parse_instinct_file(Head(fs).text),
                     [dir |-> directory, name |-> Head(fs).name], source_type, scope_label)
         \o LoadFiles(directory, Tail(fs), source_type, scope_label)

\* _load_instincts_from_dir in the storage state f
LoadDirIn(f, directory, source_type, scope_label) ==
    IF directory \notin DOMAIN f THEN <<>>
    ELSE LoadFiles(directory, f[directory], source_type, scope_label)

_load_instincts_from_dir(directory, source_type, scope_label) ==
    LoadDirIn(files, directory, source_type, scope_label)

-----------------------------------------------------------------------------
(* Aggregator *)

IdsOf(recs) == {Get(recs[k], "id", <<>>) : k \in 1..Len(recs)}

RECURSIVE NotIn(_, _)
NotIn(recs, ids) ==
    IF recs = <<>> THEN <<>>
    ELSE IF Get(Head(recs), "id", <<>>) \notin ids THEN <<Head(recs)>> \o NotIn(Tail(recs), ids)
    ELSE NotIn(Tail(recs), ids)

LoadGlobalIn(f) ==
    LoadDirIn(f, GLOBAL_PERSONAL_DIR, PERSONAL, GLOBAL)
    \o LoadDirIn(f, GLOBAL_INHERITED_DIR, INHERITED, GLOBAL)

\* step 2 with the surviving global records put in front of the project records
GlobalFirst(f, instincts, include_global) ==
    IF include_global
    THEN NotIn(LoadGlobalIn(f), IdsOf(instincts)) \o instincts
    ELSE instincts

\* step 2 of load_all_instincts: the global records whose id no project record has
WithGlobal(f, instincts, include_global) ==
    IF include_global
    THEN instincts \o NotIn(LoadGlobalIn(f), IdsOf(instincts))
    ELSE instincts

\* load_all_instincts in the storage state f
LoadAllIn(f, project, include_global) ==
    WithGlobal(f,
               IF project.id # "global"
               THEN LoadDirIn(f, project.instincts_personal, PERSONAL, PROJECT)
                    \o LoadDirIn(f, project.instincts_inherited, INHERITED, PROJECT)
               ELSE <<>>,
               include_global)

\* the aggregator with a list that outlives the call: each call appends to
\* what the call before it returned
LoadAllAccumulating(project, include_global) ==
    (IF call.fn = "load_all_instincts" THEN call.result ELSE <<>>)
    \o LoadAllIn(files, project, include_global)

load_all_instincts(project, include_global) == LoadAllIn(files, project, include_global)

\* the project-only view loaded with the global stores merged in
LoadWithGlobal(f, project) == LoadAllIn(f, project, TRUE)

\* load_project_only_instincts in the storage state f
LoadProjectOnlyIn(f, project) == LoadAllIn(f, project, FALSE)

\* the project-only view without the test on the id 'global': the two
\* directories of the project dict are always read
LoadProjectDirs(project) ==
    LoadDirIn(files, project.instincts_personal, PERSONAL, PROJECT)
    \o LoadDirIn(files, project.instincts_inherited, INHERITED, PROJECT)

load_project_only_instincts(project) == LoadProjectOnlyIn(files, project)

-----------------------------------------------------------------------------
(* Registry *)

\* REGISTRY_FILE is "missing", "corrupt" (text that is not JSON), "undecodable"
\* (bytes that are no text in the encoding of open()) or "valid" (a JSON
\* object with the keys pids).  load_registry catches FileNotFoundError and
\* json.JSONDecodeError; the UnicodeDecodeError of the read is neither.
LoadRegistryRaises == registry_file.state = "undecodable"

\* what load_registry returns when it returns
load_registry == IF registry_file.state = "valid" THEN registry_file.pids ELSE <<>>

\* _update_registry: a dict keeps the position of a key it already has
_update_registry(pid) ==
    LET registry == load_registry
    IN  [state |-> "valid",
         pids |-> IF \E k \in 1..Len(registry) : registry[k] = pid
                  THEN registry ELSE Append(registry, pid)]

-----------------------------------------------------------------------------
(* Cross-Source Promoter: analysis *)

\* the literal 0.8
PROMOTE_CONFIDENCE_THRESHOLD == FromRatio(4, 5)
PROMOTE_MIN_PROJECTS == 2

\* the default 0.5 of e[2].get("confidence", 0.5)
DefaultConfidence == FromRatio(1, 2)

Conf(inst) == Get(inst, "confidence", DefaultConfidence)

\* the (pid, inst) tuples in the order the loops over the registry append them
TagEntries(pid, recs) == [k \in 1..Len(recs) |-> [pid |-> pid, inst |-> recs[k]]]

RECURSIVE EntriesIn(_, _)
EntriesIn(f, pids) ==
    IF pids = <<>> THEN <<>>
    ELSE TagEntries(Head(pids),
                    LoadDirIn(f, PersonalDir(Head(pids)), PERSONAL, PROJECT)
                    \o LoadDirIn(f, InheritedDir(Head(pids)), INHERITED, PROJECT))
         \o EntriesIn(f, Tail(pids))

\* the keys of cross_project in insertion order
RECURSIVE KeyOrder(_, _)
KeyOrder(entries, seen) ==
    IF entries = <<>> THEN <<>>
    ELSE LET iid == Head(entries).inst["id"]
         IN  IF iid \in seen THEN KeyOrder(Tail(entries), seen)
             ELSE <<iid>> \o KeyOrder(Tail(entries), seen \cup {iid})

\* cross_project[iid]: the entries with that id, in order
RECURSIVE EntriesFor(_, _)
EntriesFor(entries, iid) ==
    IF entries = <<>> THEN <<>>
    ELSE IF Head(entries).inst["id"] = iid
         THEN <<Head(entries)>> \o EntriesFor(Tail(entries), iid)
         ELSE EntriesFor(Tail(entries), iid)

\* the filter len(entries) >= 2
CrossFilter(entries) == Len(entries) >= 2

CrossGroup(iid, entries) ==
    IF CrossFilter(entries) THEN <<[id |-> iid, entries |-> entries]>> ELSE <<>>

RECURSIVE CrossGroups(_, _)
CrossGroups(all, keys) ==
    IF keys = <<>> THEN <<>>
    ELSE CrossGroup(Head(keys), EntriesFor(all, Head(keys))) \o CrossGroups(all, Tail(keys))

\* the dict comprehension over cross_project.items()
CrossOf(all) == CrossGroups(all, KeyOrder(all, {}))

\* _find_cross_project_instincts in storage f with registry pids: a sequence of [id, entries]
FindCrossIn(f, pids) == CrossOf(EntriesIn(f, pids))

_find_cross_project_instincts == FindCrossIn(files, load_registry)

\* sum() adds from the left.  Up to CPython 3.11 every addition is rounded;
\* from CPython 3.12 on the rounding errors are carried along and added at
\* the end, which for the values of the model is the exact sum rounded once.
Summations == {"rounded", "compensated"}

RECURSIVE SumRounded(_, _)
SumRounded(total, entries) ==
    IF entries = <<>> THEN total
    ELSE SumRounded(FAdd(total, Conf(Head(entries).inst)), Tail(entries))

RECURSIVE SumExact(_, _)
SumExact(total, entries) ==
    IF entries = <<>> THEN total
    ELSE SumExact(AddFixed(total, Conf(Head(entries).inst)), Tail(entries))

SumConf(entries, summation) ==
    IF summation = "compensated" THEN Round(SumExact(Zero, entries), FALSE)
    ELSE SumRounded(Zero, entries)

\* sum(e[2].get("confidence", 0.5) for e in entries) / len(entries)
AvgConf(entries, summation) == FDivInt(SumConf(entries, summation), Len(entries))

\* the test that admits a cross-project group to the candidates of _promote_auto
Qualifies(avg_conf, n) ==
    FGeq(avg_conf, PROMOTE_CONFIDENCE_THRESHOLD) /\ n >= PROMOTE_MIN_PROJECTS

\* the loop that builds the candidates of _promote_auto
\* one iteration of the loop over cross.items()
Candidate(iid, entries, avg_conf, global_ids) ==
    IF iid \notin global_ids /\ Qualifies(avg_conf, Len(entries))
    THEN <<[id |-> iid, entries |-> entries, avg_confidence |-> avg_conf]>>
    ELSE <<>>

RECURSIVE SelectCandidates(_, _, _)
SelectCandidates(cross, global_ids, summation) ==
    IF cross = <<>> THEN <<>>
    ELSE Candidate(Head(cross).id, Head(cross).entries,
                   AvgConf(Head(cross).entries, summation), global_ids)
         \o SelectCandidates(Tail(cross), global_ids, summation)

\* candidates of _promote_auto: a sequence of [id, entries, avg_confidence]
AutoCandidatesIn(f, pids, summation) ==
    SelectCandidates(FindCrossIn(f, pids), IdsOf(LoadGlobalIn(f)), summation)

\* max(entries, key=confidence): the first entry of maximal confidence
BestEntry(entries) ==
    LET i == CHOOSE i \in 1..Len(entries) :
                /\ \A j \in 1..Len(entries) : FGeq(Conf(entries[i].inst), Conf(entries[j].inst))
                /\ \A j \in 1..(i - 1) : FGt(Conf(entries[i].inst), Conf(entries[j].inst))
    IN  entries[i]

-----------------------------------------------------------------------------
(* Writing a promoted record *)

KV(key, value) == <<W(key), COLON, SP>> \o value \o <<NL>>

\* the floats that a decimal of two places denotes
Hundredths == [k \in 0..100 |-> FromRatio(k, 100)]
ShortOf(x) == {k \in 0..100 : Hundredths[k] = x}
Literal(k) == Num(k \div GCD(k, 100), 100 \div GCD(k, 100))

\* f"{x}" of a float: repr(x), the shortest decimal that float() reads back as x
FloatText(x) ==
    IF ShortOf(x) # {} THEN <<Literal(CHOOSE k \in ShortOf(x) : TRUE)>>
    ELSE <<Repr(x)>>

\* datetime.now(timezone.utc).isoformat(): an ISO timestamp has colons in it
Now == <<W("2026-01-01T00"), COLON, W("00Z")>>

\* output_content of _promote_specific
SpecificContent(target, project) ==
    <<SEP, NL>>
    \o KV("id", Get(target, "id", <<W("None")>>))
    \o <<W("trigger"), COLON, SP, DQ>> \o Get(target, "trigger", <<W("unknown")>>) \o <<DQ, NL>>
    \o KV("confidence", FloatText(Conf(target)))
    \o KV("domain", Get(target, "domain", <<W("general")>>))
    \o KV("source", Get(target, "source", <<W("promoted")>>))
    \o KV("scope", GLOBAL)
    \o KV("promoted_from", <<W(project.id)>>)
    \o KV("promoted_date", Now)
    \o <<SEP, NL, NL>>
    \o Get(target, "content", <<>>) \o <<NL>>

\* output_content of _promote_auto for one candidate
AutoContentOf(inst, cand) ==
    <<SEP, NL>>
    \o KV("id", Get(inst, "id", <<W("None")>>))
    \o <<W("trigger"), COLON, SP, DQ>> \o Get(inst, "trigger", <<W("unknown")>>) \o <<DQ, NL>>
    \o KV("confidence", FloatText(cand.avg_confidence))
    \o KV("domain", Get(inst, "domain", <<W("general")>>))
    \o KV("source", <<W("auto-promoted")>>)
    \o KV("scope", GLOBAL)
    \o KV("promoted_date", Now)
    \o KV("seen_in_projects", <<Num(Len(cand.entries), 1)>>)
    \o <<SEP, NL, NL>>
    \o Get(inst, "content", <<>>) \o <<NL>>

AutoContent(cand) == AutoContentOf(BestEntry(cand.entries).inst, cand)

\* the keys cmd_export writes, in its order
ExportKeys ==
    <<"id", "trigger", "confidence", "domain", "source", "scope", "project_id",
      "project_name", "source_repo">>

\* inst.get(key) as a condition: a key that is there with a value that is
\* neither the empty string nor the float 0.0
ExportTruthy(inst, key) ==
    /\ Has(inst, key)
    /\ IF key = "confidence" THEN inst[key] # Zero ELSE inst[key] # <<>>

\* the lines cmd_export writes for the keys k.. of a record
RECURSIVE ExportLines(_, _)
ExportLines(inst, k) ==
    IF k > Len(ExportKeys) THEN <<>>
    ELSE (IF ~ExportTruthy(inst, ExportKeys[k]) THEN <<>>
          ELSE IF ExportKeys[k] = "trigger"
               THEN <<W("trigger"), COLON, SP, DQ>> \o inst["trigger"] \o <<DQ, NL>>
          ELSE IF ExportKeys[k] = "confidence"
               THEN KV("confidence", FloatText(inst["confidence"]))
          ELSE KV(ExportKeys[k], inst[ExportKeys[k]]))
         \o ExportLines(inst, k + 1)

\* what cmd_export appends to output for one record
ExportBlock(inst) ==
    <<SEP, NL>> \o ExportLines(inst, 1) \o <<SEP, NL, NL>>
    \o Get(inst, "content", <<>>) \o <<NL, NL>>

\* output of cmd_export for the records instincts of the project
RECURSIVE ExportBlocks(_)
ExportBlocks(instincts) ==
    IF instincts = <<>> THEN <<>>
    ELSE ExportBlock(Head(instincts)) \o ExportBlocks(Tail(instincts))

ExportOutput(instincts, project) ==
    <<W("# Instincts export"), NL, W("# Date"), COLON, SP>> \o Now
    \o <<NL, W("# Total"), COLON, SP, Num(Len(instincts), 1), NL>>
    \o (IF project.id # "global"
        THEN <<W("# Project"), COLON, SP, W(project.id), SP, W("("), W(project.id),
               W(")"), NL>>
        ELSE <<>>)
    \o <<NL>> \o ExportBlocks(instincts)

\* output_content of cmd_import for the records all_to_write
RECURSIVE ImportBlocks(_, _, _, _)
ImportBlocks(all_to_write, source, target_scope, project) ==
    IF all_to_write = <<>> THEN <<>>
    ELSE LET inst == Head(all_to_write)
         IN  <<SEP, NL>>
             \o KV("id", Get(inst, "id", <<W("None")>>))
             \o <<W("trigger"), COLON, SP, DQ>> \o Get(inst, "trigger", <<W("unknown")>>)
             \o <<DQ, NL>>
             \o KV("confidence", FloatText(Conf(inst)))
             \o KV("domain", Get(inst, "domain", <<W("general")>>))
             \o KV("source", <<W("inherited")>>)
             \o KV("scope", target_scope)
             \o <<W("imported_from"), COLON, SP, DQ>> \o source \o <<DQ, NL>>
             \o (IF target_scope = PROJECT
                 THEN KV("project_id", <<W(project.id)>>)
                      \o KV("project_name", <<W(project.id)>>)
                 ELSE <<>>)
             \o (IF Truthy(inst, "source_repo")
                 THEN KV("source_repo", inst["source_repo"]) ELSE <<>>)
             \o <<SEP, NL, NL>>
             \o Get(inst, "content", <<>>) \o <<NL, NL>>
             \o ImportBlocks(Tail(all_to_write), source, target_scope, project)

ImportContent(all_to_write, source, target_scope, project) ==
    <<W("# Imported from"), SP>> \o source
    \o <<NL, W("# Date"), COLON, SP>> \o Now
    \o <<NL, W("# Scope"), COLON, SP>> \o target_scope \o <<NL>>
    \o (IF target_scope = PROJECT
        THEN <<W("# Project"), COLON, SP, W(project.id), SP, W("("), W(project.id),
               W(")"), NL>>
        ELSE <<>>)
    \o <<NL>> \o ImportBlocks(all_to_write, source, target_scope, project)

\* The file GLOBAL_PERSONAL_DIR / f"{instinct_id}.yaml": the path separators and
\* parent references in the id are path syntax.  kind is "store" (a store
\* directory), "other" (another existing directory of the tree), "enoent" (a
\* directory on the way does not exist) or "outside" (the path leaves the tree).
RECURSIVE Walk(_, _)
Walk(cur, segs) ==
    IF segs = <<>> THEN
        [kind |-> IF cur \in StoreDirs THEN "store" ELSE "other", dir |-> cur]
    ELSE LET seg == Head(segs)
         IN  IF seg = <<DOTDOT>> THEN
                 IF cur = <<>> THEN [kind |-> "outside", dir |-> <<>>]
                 ELSE Walk(SubSeq(cur, 1, Len(cur) - 1), Tail(segs))
             ELSE IF seg = <<>> \/ seg = <<W(".")>> THEN Walk(cur, Tail(segs))
             ELSE IF (cur \o <<Chars(seg)>>) \in (StoreDirs \cup OtherDirs)
                  THEN Walk(cur \o <<Chars(seg)>>, Tail(segs))
                  ELSE [kind |-> "enoent", dir |-> <<>>]

\* the directory the segments before the last lead to, and the file name
Locate(absolute, segs) ==
    [kind |-> IF absolute THEN "outside"
              ELSE Walk(GLOBAL_PERSONAL_DIR, SubSeq(segs, 1, Len(segs) - 1)).kind,
     dir |-> IF absolute THEN <<>>
             ELSE Walk(GLOBAL_PERSONAL_DIR, SubSeq(segs, 1, Len(segs) - 1)).dir,
     name |-> segs[Len(segs)]]

OutputFile(instinct_id) ==
    Locate(instinct_id # <<>> /\ Head(instinct_id) = SLASH, Split(instinct_id, SLASH))

\* Path.write_text on a store directory: replace the file of that name, or
\* create it (front: where the new file shows up in the listing)
WriteText(f, dir, name, text, front) ==
    IF \E i \in 1..Len(f[dir]) : f[dir][i].name = name
    THEN [f EXCEPT ![dir] = [i \in 1..Len(@) |->
                                IF @[i].name = name THEN [name |-> name, text |-> text]
                                ELSE @[i]]]
    ELSE [f EXCEPT ![dir] = IF front THEN <<[name |-> name, text |-> text]>> \o @
                            ELSE Append(@, [name |-> name, text |-> text])]

\* output_file.write_text(output_content): [f, raised]
WriteTo(f, out, text, front, outside_ok) ==
    IF out.kind = "store"
    THEN [f |-> WriteText(f, out.dir, out.name, text, front), raised |-> FALSE]
    ELSE IF out.kind = "other" THEN [f |-> f, raised |-> FALSE]
    ELSE IF out.kind = "outside" THEN [f |-> f, raised |-> ~outside_ok]
    ELSE [f |-> f, raised |-> TRUE]

WriteOutput(f, instinct_id, text, front, outside_ok) ==
    WriteTo(f, OutputFile(instinct_id), text, front, outside_ok)

\* the loop over the candidates of _promote_auto: [f, raised, promoted]
RECURSIVE WriteCandidates(_, _, _, _, _), WriteNext(_, _, _, _, _)
WriteCandidates(f, cands, promoted, front, outside_ok) ==
    IF cands = <<>> THEN [f |-> f, raised |-> FALSE, promoted |-> promoted]
    ELSE WriteNext(WriteOutput(f, Head(cands).id, AutoContent(Head(cands)), front, outside_ok),
                   cands, promoted, front, outside_ok)

\* after the write for the first candidate: stop on an exception, else go on
WriteNext(w, cands, promoted, front, outside_ok) ==
    IF w.raised THEN [f |-> w.f, raised |-> TRUE, promoted |-> promoted]
    ELSE WriteCandidates(w.f, Tail(cands), promoted + 1, front, outside_ok)

-----------------------------------------------------------------------------
(* Instinct files the stores may hold at the start *)

IdX == <<W("x")>>
IdY == <<W("y")>>
\* an id that is a relative path into the personal store of project p2
IdPath == <<DOTDOT, SLASH, DOTDOT, SLASH, W("projects"), SLASH, W("p2"), SLASH,
            W("instincts"), SLASH, W("personal"), SLASH, W("z")>>

TriggerA == <<W("when"), SP, W("writing"), SP, W("tests")>>
TriggerB == <<W("when"), SP, W("testing")>>
TriggerG == <<W("always")>>

Body(w) == <<W("##"), SP, W("Action"), NL, W(w), NL, NL, W("##"), SP, W("Evidence"), NL, W(w)>>

\* a file of one block in the layout of the sample files of the tests
OneBlock(header, body) == <<SEP, NL>> \o header \o <<SEP, NL, NL>> \o body \o <<NL>>

FileA == [name |-> <<W("a")>>,
          text |-> OneBlock(KV("id", IdX)
                            \o KV("trigger", <<DQ>> \o TriggerA \o <<DQ>>)
                            \o KV("confidence", <<Num(9, 10)>>)
                            \o KV("domain", <<W("testing")>>)
                            \o KV("scope", PROJECT), Body("doA"))]

FileB == [name |-> <<W("b")>>,
          text |-> OneBlock(KV("id", IdX)
                            \o KV("trigger", <<DQ>> \o TriggerB \o <<DQ>>)
                            \o KV("confidence", <<Num(7, 10)>>)
                            \o KV("domain", <<W("workflow")>>), Body("doB"))]

\* only an id: every other field takes its default
FileC == [name |-> <<W("c")>>,
          text |-> OneBlock(KV("id", IdX), Body("doC"))]

FileP == [name |-> <<W("p")>>,
          text |-> OneBlock(KV("id", IdPath)
                            \o KV("confidence", <<Num(9, 10)>>), Body("doP"))]

FileG == [name |-> <<W("g")>>,
          text |-> OneBlock(KV("id", IdX)
                            \o KV("trigger", <<DQ>> \o TriggerG \o <<DQ>>)
                            \o KV("confidence", <<Num(19, 20)>>)
                            \o KV("domain", <<W("security")>>)
                            \o KV("scope", GLOBAL), Body("doG"))]

\* a global file with the name a promotion of x writes to, holding another id
FileY == [name |-> IdX,
          text |-> OneBlock(KV("id", IdY)
                            \o KV("confidence", <<Num(3, 5)>>), Body("doY"))]

\* a file of two blocks with the same id
FileD == [name |-> <<W("d")>>,
          text |-> OneBlock(KV("id", IdX)
                            \o KV("confidence", <<Num(9, 10)>>), Body("doD"))
                   \o <<NL>>
                   \o OneBlock(KV("id", IdX)
                               \o KV("confidence", <<Num(3, 5)>>), Body("doE"))]

\* a valid block, then a block whose confidence is not a number
FileBad == [name |-> <<W("bad")>>,
            text |-> OneBlock(KV("id", IdY)
                              \o KV("confidence", <<Num(3, 5)>>), Body("doV"))
                     \o <<NL>>
                     \o OneBlock(KV("id", IdX)
                                 \o KV("confidence", <<W("high")>>), Body("doW"))]

\* text without a separator line
FileText == [name |-> <<W("t")>>,
             text |-> KV("id", IdX) \o Body("doT") \o <<NL>>]

\* a trigger with capitals that ends in keywords of the cluster analysis
TriggerH == <<W("Tests"), SP, W("When"), SP, W("Adding")>>

FileH == [name |-> <<W("h")>>,
          text |-> OneBlock(KV("id", <<W("h")>>)
                            \o KV("trigger", <<DQ>> \o TriggerH \o <<DQ>>)
                            \o KV("confidence", <<Num(4, 5)>>)
                            \o KV("domain", <<W("testing")>>), Body("doH"))]

\* a trigger with a word that begins with a keyword of the cluster analysis:
\* the word 'whenever' is the pieces 'when' and 'ever' with nothing between
TriggerW == <<W("when"), W("ever"), SP, W("deploying")>>

FileW == [name |-> <<W("w")>>,
          text |-> OneBlock(KV("id", <<W("w")>>)
                            \o KV("trigger", <<DQ>> \o TriggerW \o <<DQ>>)
                            \o KV("confidence", <<Num(7, 10)>>)
                            \o KV("domain", <<W("workflow")>>), Body("doW"))]

\* a block of a file of several records
Block(iid, fields) == OneBlock(KV("id", <<W(iid)>>) \o fields, Body("do")) \o <<NL>>

\* four records without a trigger whose confidences have the mean 0.75
FileQ == [name |-> <<W("q")>>,
          text |-> Block("q1", KV("confidence", <<Num(1, 5)>>) \o KV("domain", <<W("workflow")>>))
                   \o Block("q2", KV("confidence", <<Num(19, 20)>>))
                   \o Block("q3", KV("confidence", <<Num(19, 20)>>)
                                  \o KV("domain", <<W("testing")>>))
                   \o Block("q4", KV("confidence", <<Num(9, 10)>>))]

\* three records with one trigger whose confidences have the mean 0.75
TriggerR == <<W("when"), SP, W("deploying")>>

FileR == [name |-> <<W("r")>>,
          text |-> Block("r1", KV("trigger", <<DQ>> \o TriggerR \o <<DQ>>)
                               \o KV("confidence", <<Num(9, 10)>>)
                               \o KV("domain", <<W("testing")>>))
                   \o Block("r2", KV("trigger", <<DQ>> \o TriggerR \o <<DQ>>)
                                  \o KV("confidence", <<Num(4, 5)>>)
                                  \o KV("domain", <<W("workflow")>>)
                                  \o KV("scope", GLOBAL))
                   \o Block("r3", KV("trigger", <<DQ>> \o TriggerR \o <<DQ>>)
                                  \o KV("confidence", <<Num(11, 20)>>))]

\* two records whose trigger has the key of TriggerA
FileT == [name |-> <<W("t")>>,
          text |-> Block("t1", KV("trigger", <<DQ>> \o TriggerA \o <<DQ>>)
                               \o KV("confidence", <<Num(9, 10)>>))
                   \o Block("t2", KV("trigger", <<DQ>> \o TriggerA \o <<DQ>>)
                                  \o KV("confidence", <<Num(4, 5)>>))]

\* the record x with a confidence below the 0.5 of a record without one
FileL == [name |-> <<W("l")>>,
          text |-> OneBlock(KV("id", IdX) \o KV("confidence", <<Num(3, 10)>>), Body("doL"))]

Catalog ==
    <<FileA, FileB, FileC, FileP, FileG, FileY, FileD, FileBad, FileText, FileH, FileW,
      FileQ, FileR, FileT, FileL>>

\* which file may lie in which store at the start: <<directory, index in Catalog>>
Placements ==
    {<<PersonalDir("p1"), 1>>, <<PersonalDir("p1"), 4>>,
     <<InheritedDir("p1"), 2>>, <<InheritedDir("p1"), 7>>,
     <<PersonalDir("p2"), 1>>, <<PersonalDir("p2"), 4>>,
     <<InheritedDir("p2"), 3>>,
     <<GLOBAL_PERSONAL_DIR, 6>>,
     <<GLOBAL_INHERITED_DIR, 5>>}

\* the number of files in all stores at the start
MaxFiles == 2

\* the listing of directory d for the chosen placements, in one of two glob orders
RECURSIVE Listing(_, _, _, _)
Listing(S, d, k, rev) ==
    IF k > Len(Catalog) THEN <<>>
    ELSE LET rest == Listing(S, d, k + 1, rev)
         IN  IF <<d, k>> \in S
             THEN IF rev THEN Append(rest, Catalog[k]) ELSE <<Catalog[k]>> \o rest
             ELSE rest

\* REGISTRY_FILE at the start: not there, not JSON, or the registry of project p1
RegistryFiles ==
    {[state |-> "missing", pids |-> <<>>],
     [state |-> "corrupt", pids |-> <<>>],
     [state |-> "valid", pids |-> <<"p1">>]}

\* the command-line arguments
IdArgs == {IdX, IdPath}
ProjectArgs == Projects \cup {"global"}

NoCall == [fn |-> "none"]

NoCommand ==
    [op |-> "none", project |-> "", id |-> <<>>, force |-> FALSE, dry_run |-> FALSE,
     answer |-> "", rc |-> 0, out |-> "", raised |-> FALSE, candidates |-> <<>>,
     promoted |-> 0]

Init ==
    /\ \E S \in SUBSET Placements : \E rev \in BOOLEAN :
          /\ Cardinality(S) <= MaxFiles
          /\ files = [d \in StoreDirs |-> Listing(S, d, 1, rev)]
    /\ registry_file \in RegistryFiles
    /\ last = NoCommand
    /\ call = NoCall

-----------------------------------------------------------------------------
(* Commands *)

\* detect_project for a working directory inside project pid
DetectProject(pid) ==
    /\ last.op = "none"
    /\ IF LoadRegistryRaises
       THEN /\ last' = [NoCommand EXCEPT !.op = "detect_project", !.project = pid,
                                         !.rc = 1, !.raised = TRUE]
            /\ UNCHANGED registry_file
       ELSE /\ registry_file' = _update_registry(pid)
            /\ last' = [NoCommand EXCEPT !.op = "detect_project", !.project = pid]
    /\ UNCHANGED <<files, call>>

FirstWithId(recs, iid) ==
    LET i == CHOOSE i \in 1..Len(recs) :
                /\ Get(recs[i], "id", <<>>) = iid
                /\ \A j \in 1..(i - 1) : Get(recs[j], "id", <<>>) # iid
    IN  recs[i]

\* the already-global test looking at the global personal store only
AlreadyGlobalPersonal(global_instincts, instinct_id) ==
    \E k \in 1..Len(global_instincts) :
        /\ Get(global_instincts[k], "id", <<>>) = instinct_id
        /\ global_instincts[k]["_source_type"] = PERSONAL

\* the test  any(i.get('id') == instinct_id for i in global_instincts)
AlreadyGlobal(global_instincts, instinct_id) == instinct_id \in IdsOf(global_instincts)

\* a dry run that goes on to the prompt and the writes
DryRunIgnored(dry_run) == FALSE

\* the test  if dry_run:  of _promote_auto
DryRunStops(dry_run) == dry_run

\* the replies to the confirmation prompt; there is no prompt when force is set
Answers(force) == IF force THEN {""} ELSE {"y", "n"}

\* what the file system does with a new file (where glob lists it) and with a
\* path that leaves the tree (whether the write succeeds)
FsChoices(instinct_ids) ==
    [front : BOOLEAN,
     outside_ok : IF \E iid \in instinct_ids : OutputFile(iid).kind = "outside"
                  THEN BOOLEAN ELSE {TRUE}]

\* the outcome of a promotion after its writes w: [f, last]
Outcome(cmd, answer, w, promoted) ==
    [f |-> w.f,
     last |-> IF w.raised
              THEN [cmd EXCEPT !.raised = TRUE, !.rc = 1, !.promoted = promoted,
                               !.answer = answer]
              ELSE [cmd EXCEPT !.rc = 0, !.out = "Promoted", !.promoted = promoted,
                               !.answer = answer]]

Cancelled(f, cmd, answer) ==
    [f |-> f, last |-> [cmd EXCEPT !.rc = 0, !.out = "Cancelled", !.answer = answer]]

\* _promote_specific from the prompt on
SpecificWrite(f, cmd, output_content) ==
    UNION {IF ~cmd.force /\ answer # "y"
           THEN {Cancelled(f, cmd, answer)}
           ELSE {Outcome(cmd, answer,
                         WriteOutput(f, cmd.id, output_content, fs.front, fs.outside_ok), 1)
                 : fs \in FsChoices({cmd.id})}
           : answer \in Answers(cmd.force)}

\* _promote_specific after load_project_only_instincts
SpecificWith(f, cmd, project, project_instincts) ==
    IF cmd.id \notin IdsOf(project_instincts) THEN
        {[f |-> f, last |-> [cmd EXCEPT !.rc = 1, !.out = "not found"]]}
    ELSE IF AlreadyGlobal(LoadGlobalIn(f), cmd.id) THEN
        {[f |-> f, last |-> [cmd EXCEPT !.rc = 1, !.out = "already exists"]]}
    ELSE
        SpecificWrite(f, cmd, SpecificContent(FirstWithId(project_instincts, cmd.id), project))

\* _promote_specific(project, instinct_id, force) in storage f: the possible
\* results [f, last], the storage it leaves and the outcome
_promote_specific(f, pid, instinct_id, force) ==
    SpecificWith(f,
                 [NoCommand EXCEPT !.op = "promote_specific", !.project = pid,
                                   !.id = instinct_id, !.force = force],
                 ProjectDict(pid),
                 LoadProjectOnlyIn(f, ProjectDict(pid)))

\* the write loop of _promote_auto, in one run of the file system
AutoLoop(f, cmd, answer, w) == Outcome(cmd, answer, w, w.promoted)

\* _promote_auto from the test of the candidates on
AutoWrite(f, cmd, candidates) ==
    IF candidates = <<>> THEN
        {[f |-> f, last |-> [cmd EXCEPT !.rc = 0, !.out = "No instincts qualify"]]}
    ELSE IF DryRunStops(cmd.dry_run) THEN
        {[f |-> f, last |-> [cmd EXCEPT !.rc = 0, !.out = "DRY RUN"]]}
    ELSE
        UNION {IF ~cmd.force /\ answer # "y"
               THEN {Cancelled(f, cmd, answer)}
               ELSE {AutoLoop(f, cmd, answer,
                              WriteCandidates(f, candidates, 0, fs.front, fs.outside_ok))
                     : fs \in FsChoices({candidates[k].id : k \in 1..Len(candidates)})}
               : answer \in Answers(cmd.force)}

AutoWith(f, candidates, force, dry_run) ==
    AutoWrite(f,
              [NoCommand EXCEPT !.op = "promote_auto", !.force = force, !.dry_run = dry_run,
                                !.candidates = [k \in 1..Len(candidates) |-> candidates[k].id]],
              candidates)

\* _promote_auto(project, force, dry_run) in storage f with registry pids: the
\* possible results [f, last]; the project argument is never read
_promote_auto(f, pids, force, dry_run, summation) ==
    AutoWith(f, AutoCandidatesIn(f, pids, summation), force, dry_run)

PromoteSpecific ==
    \E pid \in ProjectArgs, instinct_id \in IdArgs, force \in BOOLEAN :
        /\ last.op = "none"
        /\ \E o \in _promote_specific(files, pid, instinct_id, force) :
              /\ files' = o.f
              /\ last' = o.last
              /\ UNCHANGED <<registry_file, call>>

PromoteAuto ==
    \E force \in BOOLEAN, dry_run \in BOOLEAN, summation \in Summations :
        /\ last.op = "none"
        /\ IF LoadRegistryRaises
           THEN /\ last' = [NoCommand EXCEPT !.op = "promote_auto", !.force = force,
                                             !.dry_run = dry_run, !.rc = 1,
                                             !.raised = TRUE]
                /\ UNCHANGED <<files, registry_file, call>>
           ELSE \E o \in _promote_auto(files, load_registry, force, dry_run, summation) :
                    /\ files' = o.f
                    /\ last' = o.last
                    /\ UNCHANGED <<registry_file, call>>

\* the process ends (sys.exit(main())); the next command is a new process
Exit ==
    /\ last.op # "none"
    /\ last' = NoCommand
    /\ UNCHANGED <<files, registry_file, call>>

Detect == \E pid \in Projects : DetectProject(pid)

Next == Detect \/ PromoteSpecific \/ PromoteAuto \/ Exit

Spec == Init /\ [][Next]_vars

-----------------------------------------------------------------------------
(* The loader and the aggregator, called on their own: the stores hold the  *)
(* files of the catalog, some store directories do not exist, and each step *)
(* is one call of a function with its arguments and what it returned.       *)

LoaderPlacements ==
    {<<PersonalDir("p1"), 1>>, <<PersonalDir("p1"), 8>>,
     <<InheritedDir("p1"), 5>>, <<InheritedDir("p1"), 2>>,
     <<PersonalDir("p2"), 9>>,
     <<InheritedDir("p2"), 7>>,
     <<GLOBAL_PERSONAL_DIR, 6>>, <<GLOBAL_PERSONAL_DIR, 2>>,
     <<GLOBAL_INHERITED_DIR, 4>>}

\* the number of files in all stores
LoaderMaxFiles == 4

\* the store directories that may not exist
MaybeAbsent == {InheritedDir("p2"), GLOBAL_INHERITED_DIR}

LoaderInit ==
    /\ \E absent \in SUBSET MaybeAbsent : \E S \in SUBSET LoaderPlacements :
       \E rev \in BOOLEAN :
          /\ Cardinality(S) <= LoaderMaxFiles
          /\ \A pl \in S : pl[1] \notin absent
          /\ files = [d \in StoreDirs \ absent |-> Listing(S, d, 1, rev)]
    /\ registry_file = [state |-> "missing", pids |-> <<>>]
    /\ last = NoCommand
    /\ call = NoCall

\* the source kind and the scope label a directory is loaded with
LoadKinds == {<<PERSONAL, PROJECT>>, <<INHERITED, GLOBAL>>}

\* The parser, the loader and the project-only view are called by a caller
\* that holds no result; the aggregator is called in any state, also right
\* after another call of it.

\* parsed = parse_instinct_file(content) for the text of a file of the stores
CallParse ==
    \E d \in DOMAIN files : \E k \in 1..Len(files[d]) :
        /\ call.fn = "none"
        /\ call' = [fn |-> "parse_instinct_file", content |-> files[d][k].text,
                    result |-> parse_instinct_file(files[d][k].text)]
        /\ UNCHANGED <<files, registry_file, last>>

CallLoadDir ==
    \E directory \in (DOMAIN files) \cup MaybeAbsent : \E kind \in LoadKinds :
        /\ call.fn = "none"
        /\ call' = [fn |-> "_load_instincts_from_dir", directory |-> directory,
                    source_type |-> kind[1], scope_label |-> kind[2],
                    result |-> _load_instincts_from_dir(directory, kind[1], kind[2])]
        /\ UNCHANGED <<files, registry_file, last>>

CallLoadAll ==
    \E pid \in ProjectArgs :
        /\ call' = [fn |-> "load_all_instincts", project |-> pid,
                    result |-> load_all_instincts(ProjectDict(pid), TRUE)]
        /\ UNCHANGED <<files, registry_file, last>>

CallLoadProjectOnly ==
    \E pid \in ProjectArgs :
        /\ call.fn = "none"
        /\ call' = [fn |-> "load_project_only_instincts", project |-> pid,
                    result |-> load_project_only_instincts(ProjectDict(pid))]
        /\ UNCHANGED <<files, registry_file, last>>

\* the caller is done with what the call returned
Return ==
    /\ call.fn # "none"
    /\ call' = NoCall
    /\ UNCHANGED <<files, registry_file, last>>

LoaderNext == CallParse \/ CallLoadDir \/ CallLoadAll \/ CallLoadProjectOnly \/ Return

LoaderSpec == LoaderInit /\ [][LoaderNext]_vars

-----------------------------------------------------------------------------
(* The parser on texts of its own: one store holds one file, whose text is   *)
(* some lines, then up to MaxBlocks blocks of a header and a body, then      *)
(* perhaps a header that the text ends in.                                   *)

IdLine(w) == <<W("id"), COLON, SP, W(w)>>

\* the headers: an id; an id between a trigger of quote characters and a
\* confidence of 0; no id key; an empty id; no line
Headers ==
    {<<IdLine("a")>>,
     <<<<W("trigger"), COLON, SP, SQ, DQ, W("quoted"), DQ, SQ>>, IdLine("b"),
       <<W("confidence"), COLON, SP, Num(0, 1)>>>>,
     <<<<W("domain"), COLON, SP, W("workflow")>>>>,
     <<<<W("id"), COLON, SP, DQ, DQ>>>>,
     <<>>}

\* the bodies: nothing, or lines with blank lines around and between them
Bodies ==
    {<<>>,
     <<<<>>, <<W("##"), SP, W("Action")>>, <<>>, <<SP, W("do"), COLON, SP, W("it")>>, <<>>>>}

\* the lines of a block
BlockLines == {<<<<SEP>>>> \o h \o <<<<SEP>>>> \o b : h \in Headers, b \in Bodies}

\* the lines before the first block and the lines after the last one
Frames ==
    {[before |-> <<>>, after |-> <<>>],
     [before |-> <<<<W("this is not yaml")>>, <<SEP, SP, W("x")>>>>, after |-> <<>>],
     [before |-> <<IdLine("a"), <<W("text")>>>>, after |-> <<>>],
     [before |-> <<<<W("confidence"), COLON, SP, W("high")>>, <<>>>>, after |-> <<>>],
     [before |-> <<>>, after |-> <<<<SEP>>, IdLine("c")>>]}

\* the number of blocks of a text
MaxBlocks == 3

RECURSIVE Flatten(_)
Flatten(seqs) == IF seqs = <<>> THEN <<>> ELSE Head(seqs) \o Flatten(Tail(seqs))

TextOf(frame, blocks) == Join(frame.before \o Flatten(blocks) \o frame.after, NL)

ParserInit ==
    /\ \E n \in 0..MaxBlocks : \E blocks \in [1..n -> BlockLines] : \E frame \in Frames :
          files = [d \in {PersonalDir("p1")} |->
                      <<[name |-> <<W("t")>>, text |-> TextOf(frame, blocks)]>>]
    /\ registry_file = [state |-> "missing", pids |-> <<>>]
    /\ last = NoCommand
    /\ call = NoCall

ParserNext == CallParse \/ CallLoadDir \/ Return

ParserSpec == ParserInit /\ [][ParserNext]_vars

-----------------------------------------------------------------------------
(* The serializers: the personal store of a project holds a file of one      *)
(* block (and perhaps a header the text ends in); a record loaded from it is *)
(* written as cmd_export, _promote_specific and cmd_import write it, and the *)
(* text is parsed.                                                           *)

SerializerInit ==
    /\ \E block \in BlockLines : \E frame \in Frames :
          files = [d \in {PersonalDir("p1")} |->
                      <<[name |-> <<W("t")>>, text |-> TextOf(frame, <<block>>)]>>]
    /\ registry_file = [state |-> "missing", pids |-> <<>>]
    /\ last = NoCommand
    /\ call = NoCall

\* the texts the program writes for a record
Serializers == {"cmd_export", "_promote_specific", "cmd_import"}

Serialize(by, inst, project) ==
    IF by = "cmd_export" THEN ExportOutput(<<inst>>, project)
    ELSE IF by = "_promote_specific" THEN SpecificContent(inst, project)
    ELSE ImportContent(<<inst>>, <<W("team.yaml")>>, PROJECT, project)

\* a record of the project's personal store is written by one of the
\* serializers and the text is parsed
CallSerialize ==
    \E by \in Serializers :
    \E k \in 1..Len(load_project_only_instincts(ProjectDict("p1"))) :
        /\ call.fn = "none"
        /\ call' = [fn |-> "serialize", by |-> by,
                    inst |-> load_project_only_instincts(ProjectDict("p1"))[k],
                    result |-> parse_instinct_file(
                                  Serialize(by,
                                            load_project_only_instincts(ProjectDict("p1"))[k],
                                            ProjectDict("p1")))]
        /\ UNCHANGED <<files, registry_file, last>>

SerializerNext == CallParse \/ CallSerialize \/ Return

SerializerSpec == SerializerInit /\ [][SerializerNext]_vars

-----------------------------------------------------------------------------
(* Cluster Analyzer: cmd_evolve *)

\* str.lower() on the words of the triggers
Lowered == [c \in {"Tests", "When", "Adding"} |->
               IF c = "Tests" THEN "tests" ELSE IF c = "When" THEN "when" ELSE "adding"]
Lower(s) == [i \in 1..Len(s) |-> IF s[i].c \in DOMAIN Lowered THEN W(Lowered[s[i].c]) ELSE s[i]]

Keywords == <<"when", "creating", "writing", "adding", "implementing", "testing">>

\* str.replace(keyword, ''): every occurrence of the keyword goes
RECURSIVE RemoveAll(_, _)
RemoveAll(s, keyword) ==
    IF s = <<>> THEN <<>>
    ELSE IF Head(s) = W(keyword) THEN RemoveAll(Tail(s), keyword)
    ELSE <<Head(s)>> \o RemoveAll(Tail(s), keyword)

\* the loop over the keywords k..: replace, then strip
RECURSIVE StripKeywords(_, _)
StripKeywords(trigger_key, k) ==
    IF k > Len(Keywords) THEN trigger_key
    ELSE StripKeywords(Strip(RemoveAll(trigger_key, Keywords[k]), Whitespace), k + 1)

\* the normalized trigger of a record
TriggerKey(inst) == StripKeywords(Lower(Get(inst, "trigger", <<>>)), 1)

\* trigger_clusters: the keys in the order of their first record, and the
\* records of a key in the order of the sequence
RECURSIVE ClusterKeys(_, _)
ClusterKeys(instincts, seen) ==
    IF instincts = <<>> THEN <<>>
    ELSE IF TriggerKey(Head(instincts)) \in seen THEN ClusterKeys(Tail(instincts), seen)
    ELSE <<TriggerKey(Head(instincts))>>
         \o ClusterKeys(Tail(instincts), seen \cup {TriggerKey(Head(instincts))})

RECURSIVE ClusterOf(_, _)
ClusterOf(instincts, trigger) ==
    IF instincts = <<>> THEN <<>>
    ELSE IF TriggerKey(Head(instincts)) = trigger
         THEN <<Head(instincts)>> \o ClusterOf(Tail(instincts), trigger)
         ELSE ClusterOf(Tail(instincts), trigger)

\* a cluster of any size is a candidate
AnyCluster(cluster) == Len(cluster) >= 1

\* len(cluster) >= 2
IsSkillCandidate(cluster) == Len(cluster) >= 2

\* set(i.get('domain', 'general') for i in cluster)
Domains(cluster) == {Get(cluster[k], "domain", <<W("general")>>) : k \in 1..Len(cluster)}

\* set(i.get('scope', 'project') for i in cluster)
Scopes(cluster) == {Get(cluster[k], "scope", PROJECT) : k \in 1..Len(cluster)}

SkillCandidate(trigger, cluster, summation) ==
    IF IsSkillCandidate(cluster)
    THEN <<[trigger |-> trigger, instincts |-> cluster,
            avg_confidence |-> AvgConf([k \in 1..Len(cluster) |-> [inst |-> cluster[k]]],
                                       summation),
            domains |-> Domains(cluster),
            scopes |-> Scopes(cluster)]>>
    ELSE <<>>

\* the loop over trigger_clusters.items()
RECURSIVE SkillCandidates(_, _, _)
SkillCandidates(instincts, keys, summation) ==
    IF keys = <<>> THEN <<>>
    ELSE SkillCandidate(Head(keys), ClusterOf(instincts, Head(keys)), summation)
         \o SkillCandidates(instincts, Tail(keys), summation)

\* the sort key without the cluster size
RanksByAverage(a, b) == FGt(a.avg_confidence, b.avg_confidence)

\* the sort key (-len(instincts), -avg_confidence): a stands before b
RanksBefore(a, b) ==
    \/ Len(a.instincts) > Len(b.instincts)
    \/ Len(a.instincts) = Len(b.instincts) /\ FGt(a.avg_confidence, b.avg_confidence)

\* list.sort is stable: a candidate goes behind those it does not rank before
RECURSIVE InsertCandidate(_, _)
InsertCandidate(sorted, cand) ==
    IF sorted = <<>> THEN <<cand>>
    ELSE IF RanksBefore(cand, Head(sorted)) THEN <<cand>> \o sorted
    ELSE <<Head(sorted)>> \o InsertCandidate(Tail(sorted), cand)

RECURSIVE SortCandidates(_, _)
SortCandidates(sorted, candidates) ==
    IF candidates = <<>> THEN sorted
    ELSE SortCandidates(InsertCandidate(sorted, Head(candidates)), Tail(candidates))

\* trigger_clusters as the list of its items
TriggerClusters(instincts, keys) ==
    [k \in 1..Len(keys) |-> [trigger |-> keys[k], instincts |-> ClusterOf(instincts, keys[k])]]

\* every record is a command candidate
AnyInstinct(i) == TRUE

\* i.get('domain') == 'workflow' and i.get('confidence', 0) >= 0.7
IsWorkflowInstinct(i) ==
    /\ Has(i, "domain") /\ i["domain"] = <<W("workflow")>>
    /\ FGeq(Get(i, "confidence", Zero), FromRatio(7, 10))

RECURSIVE WorkflowInstincts(_)
WorkflowInstincts(instincts) ==
    IF instincts = <<>> THEN <<>>
    ELSE IF IsWorkflowInstinct(Head(instincts))
         THEN <<Head(instincts)>> \o WorkflowInstincts(Tail(instincts))
         ELSE WorkflowInstincts(Tail(instincts))

\* len(c['instincts']) >= 3 and c['avg_confidence'] >= 0.75
IsAgentCandidate(c) ==
    Len(c.instincts) >= 3 /\ FGeq(c.avg_confidence, FromRatio(3, 4))

RECURSIVE AgentCandidates(_)
AgentCandidates(skill_candidates) ==
    IF skill_candidates = <<>> THEN <<>>
    ELSE IF IsAgentCandidate(Head(skill_candidates))
         THEN <<Head(skill_candidates)>> \o AgentCandidates(Tail(skill_candidates))
         ELSE AgentCandidates(Tail(skill_candidates))

\* the analysis of cmd_evolve from the sorted skill candidates on
EvolveLists(instincts, keys, skill_candidates) ==
    [rc |-> 0, out |-> "EVOLVE ANALYSIS",
     trigger_clusters |-> TriggerClusters(instincts, keys),
     skill_candidates |-> skill_candidates,
     workflow_instincts |-> WorkflowInstincts(instincts),
     agent_candidates |-> AgentCandidates(skill_candidates)]

\* cmd_evolve on the merged records: the return code, trigger_clusters,
\* skill_candidates, workflow_instincts and agent_candidates
EvolveAnalysis(instincts, summation) ==
    IF Len(instincts) < 3
    THEN [rc |-> 1, out |-> "Need at least 3 instincts", trigger_clusters |-> <<>>,
          skill_candidates |-> <<>>, workflow_instincts |-> <<>>,
          agent_candidates |-> <<>>]
    ELSE EvolveLists(instincts, ClusterKeys(instincts, {}),
                     SortCandidates(<<>>, SkillCandidates(instincts,
                                                          ClusterKeys(instincts, {}),
                                                          summation)))

EvolvePlacements ==
    {<<PersonalDir("p1"), 1>>, <<PersonalDir("p1"), 10>>,
     <<InheritedDir("p1"), 2>>, <<InheritedDir("p1"), 7>>,
     <<GLOBAL_PERSONAL_DIR, 6>>,
     <<GLOBAL_INHERITED_DIR, 5>>, <<GLOBAL_INHERITED_DIR, 11>>,
     <<GLOBAL_INHERITED_DIR, 12>>, <<GLOBAL_INHERITED_DIR, 13>>,
     <<GLOBAL_INHERITED_DIR, 14>>}

EvolveInit ==
    /\ \E S \in SUBSET EvolvePlacements : \E rev \in BOOLEAN :
          /\ Cardinality(S) <= LoaderMaxFiles
          /\ files = [d \in StoreDirs |-> Listing(S, d, 1, rev)]
    /\ registry_file = [state |-> "missing", pids |-> <<>>]
    /\ last = NoCommand
    /\ call = NoCall

CmdEvolve ==
    \E pid \in ProjectArgs : \E summation \in Summations :
        /\ call.fn = "none"
        /\ call' = [fn |-> "cmd_evolve", project |-> pid,
                    instincts |-> load_all_instincts(ProjectDict(pid), TRUE),
                    result |-> EvolveAnalysis(load_all_instincts(ProjectDict(pid), TRUE),
                                              summation)]
        /\ UNCHANGED <<files, registry_file, last>>

EvolveNext == CmdEvolve \/ Return

EvolveSpec == EvolveInit /\ [][EvolveNext]_vars

-----------------------------------------------------------------------------
(* cmd_import, with the promotions, on stores in which every id is unique.  *)

\* target_scope: the scope argument, global when no project is detected
TargetScope(scope, pid) == IF scope = PROJECT /\ pid = "global" THEN GLOBAL ELSE scope

\* inst.get('confidence', 0) > existing_inst.get('confidence', 0)
HigherConfidence(inst, existing_inst) ==
    FGt(Get(inst, "confidence", Zero), Get(existing_inst, "confidence", Zero))

\* the loop over new_instincts: [to_add, duplicates, to_update]
RECURSIVE Categorize(_, _, _)
Categorize(new_instincts, existing, acc) ==
    IF new_instincts = <<>> THEN acc
    ELSE LET inst == Head(new_instincts)
             inst_id == Get(inst, "id", <<>>)
         IN  Categorize(Tail(new_instincts), existing,
                 IF inst_id \in IdsOf(existing)
                 THEN IF HigherConfidence(inst, FirstWithId(existing, inst_id))
                      THEN [acc EXCEPT !.to_update = Append(@, inst)]
                      ELSE [acc EXCEPT !.duplicates = Append(@, inst)]
                 ELSE [acc EXCEPT !.to_add = Append(@, inst)])

\* [i for i in instincts if i.get('confidence', 0.5) >= min_conf]
RECURSIVE AtLeastConf(_, _)
AtLeastConf(instincts, min_conf) ==
    IF instincts = <<>> THEN <<>>
    ELSE IF FGeq(Conf(Head(instincts)), min_conf)
         THEN <<Head(instincts)>> \o AtLeastConf(Tail(instincts), min_conf)
         ELSE AtLeastConf(Tail(instincts), min_conf)

\* output_dir
ImportDir(target_scope, pid) ==
    IF target_scope = GLOBAL \/ pid = "global" THEN GLOBAL_INHERITED_DIR
    ELSE InheritedDir(pid)

\* the seconds of the clock at the imports, as strftime writes them
Timestamps == {<<W("20260101-000000")>>, <<W("20260101-000001")>>}

\* f"{source_name}-{timestamp}.yaml" without the suffix
ImportName(source, timestamp) == source.name \o <<W("-")>> \o timestamp

\* the path of a source file
SourcePath(source) == <<SLASH, W("tmp"), SLASH>> \o source.name \o <<W(".yaml")>>

\* cmd_import from the dry-run test on: the possible [f, rc, out]
ImportWrite(f, pid, source, target_scope, to_add, to_update, dry_run, force) ==
    IF dry_run THEN {[f |-> f, rc |-> 0, out |-> "DRY RUN"]}
    ELSE IF to_add = <<>> /\ to_update = <<>>
    THEN {[f |-> f, rc |-> 0, out |-> "Nothing to import"]}
    ELSE UNION {IF ~force /\ answer # "y"
                THEN {[f |-> f, rc |-> 0, out |-> "Cancelled"]}
                ELSE {[f |-> WriteText(f, ImportDir(target_scope, pid),
                                       ImportName(source, timestamp),
                                       ImportContent(to_add \o to_update, SourcePath(source),
                                                     target_scope, ProjectDict(pid)),
                                       front),
                       rc |-> 0, out |-> "Import complete"]
                      : timestamp \in Timestamps, front \in BOOLEAN}
                : answer \in Answers(force)}

\* cmd_import after parse_instinct_file and load_all_instincts: the possible
\* results with what the command found
ImportWith(f, pid, source, target_scope, new_instincts, existing, min_conf, dry_run, force) ==
    LET sorted == Categorize(new_instincts, existing,
                             [to_add |-> <<>>, duplicates |-> <<>>, to_update |-> <<>>])
        to_add == AtLeastConf(sorted.to_add, min_conf)
        to_update == AtLeastConf(sorted.to_update, min_conf)
    IN  {[f |-> o.f, rc |-> o.rc, out |-> o.out, raised |-> FALSE,
          existing |-> existing, sorted |-> sorted,
          to_add |-> to_add, to_update |-> to_update]
         : o \in ImportWrite(f, pid, source, target_scope, to_add, to_update, dry_run,
                              force)}

NoImport(f, rc, out, raised) ==
    [f |-> f, rc |-> rc, out |-> out, raised |-> raised, existing |-> <<>>,
     sorted |-> [to_add |-> <<>>, duplicates |-> <<>>, to_update |-> <<>>],
     to_add |-> <<>>, to_update |-> <<>>]

\* cmd_import for a source file that exists outside the system directories
cmd_import(f, pid, source, scope, min_conf, dry_run, force) ==
    LET parsed == parse_instinct_file(source.text)
    IN  IF parsed.raised THEN {NoImport(f, 1, "", TRUE)}
        ELSE IF parsed.instincts = <<>>
        THEN {NoImport(f, 1, "No valid instincts found in source", FALSE)}
        ELSE ImportWith(f, pid, source, TargetScope(scope, pid), parsed.instincts,
                        LoadAllIn(f, ProjectDict(pid), TRUE), min_conf, dry_run, force)

\* the files that are imported: x with 0.9, x without confidence, x with 0.3,
\* a file with a confidence that is no number, a file without records
ImportSources == {FileA, FileC, FileL, FileBad, FileText}

\* --min-confidence: not given (0.0) or 0.5
MinConfidences == {Zero, FromRatio(1, 2)}

ImportPlacements ==
    {<<PersonalDir("p1"), 3>>, <<InheritedDir("p1"), 15>>, <<PersonalDir("p2"), 1>>,
     <<GLOBAL_INHERITED_DIR, 5>>}

\* every id is unique within the stores of each project and within the
\* global stores
UniqueIn(recs) ==
    \A j, k \in 1..Len(recs) : Get(recs[j], "id", <<>>) = Get(recs[k], "id", <<>>) => j = k

UniqueWithin(f) ==
    /\ \A pid \in Projects : UniqueIn(LoadProjectOnlyIn(f, ProjectDict(pid)))
    /\ UniqueIn(LoadGlobalIn(f))

\* the number of files in all stores up to which a command is started
ImportMaxFiles == 2

FileCount(f) == LET RECURSIVE Count(_)
                    Count(D) == IF D = {} THEN 0
                                ELSE LET d == CHOOSE d \in D : TRUE
                                     IN  Len(f[d]) + Count(D \ {d})
                IN  Count(DOMAIN f)

ImportInit ==
    /\ \E S \in SUBSET ImportPlacements : \E rev \in BOOLEAN :
          files = [d \in StoreDirs |-> Listing(S, d, 1, rev)]
    /\ UniqueWithin(files)
    /\ registry_file = [state |-> "valid", pids |-> <<"p1", "p2">>]
    /\ last = NoCommand
    /\ call = NoCall

CmdImport ==
    \E pid \in ProjectArgs, source \in ImportSources, scope \in {PROJECT, GLOBAL},
       min_conf \in MinConfidences, dry_run \in BOOLEAN, force \in BOOLEAN :
        /\ last.op = "none"
        /\ FileCount(files) <= ImportMaxFiles
        /\ \E o \in cmd_import(files, pid, source, scope, min_conf, dry_run, force) :
              /\ files' = o.f
              /\ last' = [NoCommand EXCEPT !.op = "import", !.project = pid,
                                           !.force = force, !.dry_run = dry_run,
                                           !.rc = o.rc, !.out = o.out,
                                           !.raised = o.raised]
              /\ call' = [fn |-> "cmd_import", project |-> pid, source |-> source.name,
                          scope |-> scope, min_conf |-> min_conf,
                          existing |-> o.existing, sorted |-> o.sorted,
                          to_add |-> o.to_add, to_update |-> o.to_update]
              /\ UNCHANGED registry_file

\* a promotion, started while the stores are small
PromoteBounded == FileCount(files) <= ImportMaxFiles /\ (PromoteSpecific \/ PromoteAuto)

\* the process ends; what the import found is gone with it
ImportExit ==
    /\ last.op # "none"
    /\ last' = NoCommand
    /\ call' = NoCall
    /\ UNCHANGED <<files, registry_file>>

ImportNext == CmdImport \/ PromoteBounded \/ ImportExit

ImportSpec == ImportInit /\ [][ImportNext]_vars

-----------------------------------------------------------------------------
(* Path Validation.  A path is a sequence of segments, a segment a sequence *)
(* of pieces of a name: 'etcetera' is the pieces 'etc' and 'etera'.  The    *)
(* text of a path is a separator and the pieces for every segment.          *)

Seg(name) == <<W(name)>>

\* str(path) for an absolute path
RECURSIVE PathText(_)
PathText(segs) ==
    IF segs = <<>> THEN <<>> ELSE <<SLASH>> \o Head(segs) \o PathText(Tail(segs))

\* the symbolic links of the file system: a Linux with merged /usr, a macOS,
\* a system without links
Layouts == {"linux", "macos", "plain"}

Links(layout) ==
    IF layout = "linux"
    THEN {[from |-> <<Seg("bin")>>, to |-> <<Seg("usr"), Seg("bin")>>],
          [from |-> <<Seg("sbin")>>, to |-> <<Seg("usr"), Seg("sbin")>>],
          [from |-> <<Seg("var"), Seg("run")>>, to |-> <<Seg("run")>>]}
    ELSE IF layout = "macos"
    THEN {[from |-> <<Seg("etc")>>, to |-> <<Seg("private"), Seg("etc")>>],
          [from |-> <<Seg("var")>>, to |-> <<Seg("private"), Seg("var")>>],
          [from |-> <<Seg("tmp")>>, to |-> <<Seg("private"), Seg("tmp")>>]}
    ELSE {}

\* a directory that is a link stands for its target
Follow(layout, dir) ==
    IF \E l \in Links(layout) : l.from = dir
    THEN (CHOOSE l \in Links(layout) : l.from = dir).to
    ELSE dir

\* Path.resolve(): the segments one by one from the directory cur
RECURSIVE ResolveFrom(_, _, _)
ResolveFrom(layout, cur, segs) ==
    IF segs = <<>> THEN cur
    ELSE IF Head(segs) = <<DOTDOT>>
    THEN ResolveFrom(layout, IF cur = <<>> THEN <<>> ELSE SubSeq(cur, 1, Len(cur) - 1),
                     Tail(segs))
    ELSE ResolveFrom(layout, Follow(layout, Append(cur, Head(segs))), Tail(segs))

Home == <<Seg("home"), Seg("u")>>
Cwd == <<Seg("tmp")>>

\* Path(path_str).expanduser().resolve(); root is "/" for an absolute path,
\* "~" for a path in the home directory, "" for a relative path
Resolve(layout, path) ==
    ResolveFrom(layout, <<>>,
                IF path.root = "~" THEN Home \o path.segs
                ELSE IF path.root = "" THEN Cwd \o path.segs
                ELSE path.segs)

blocked_prefixes ==
    <<<<Seg("etc")>>, <<Seg("usr")>>, <<Seg("bin")>>, <<Seg("sbin")>>, <<Seg("proc")>>,
      <<Seg("sys")>>,
      <<Seg("var"), Seg("log")>>, <<Seg("var"), Seg("run")>>, <<Seg("var"), Seg("lib")>>,
      <<Seg("var"), Seg("spool")>>,
      <<Seg("private"), Seg("etc")>>,
      <<Seg("private"), Seg("var"), Seg("log")>>, <<Seg("private"), Seg("var"), Seg("run")>>,
      <<Seg("private"), Seg("var"), Seg("db")>>>>

\* str.startswith
StartsWith(s, prefix) == Len(s) >= Len(prefix) /\ SubSeq(s, 1, Len(prefix)) = prefix

\* path_s.startswith(prefix + "/") or path_s == prefix
Targets(path_s, prefix) ==
    StartsWith(path_s, PathText(prefix) \o <<SLASH>>) \/ path_s = PathText(prefix)

\* path.exists(): the files and directories that are there have these names
ExistingNames == {Seg("a.yaml"), Seg("rel.yaml"), Seg("passwd"), Seg("etc"), Seg("syslog")}

Exists(resolved) == resolved = <<>> \/ resolved[Len(resolved)] \in ExistingNames

\* _validate_file_path(path_str, must_exist): [raised, error, path]
_validate_file_path(layout, path_str, must_exist) ==
    LET path == Resolve(layout, path_str)
    IN  IF \E k \in 1..Len(blocked_prefixes) : Targets(PathText(path), blocked_prefixes[k])
        THEN [raised |-> TRUE, error |-> "targets a system directory", path |-> <<>>]
        ELSE IF must_exist /\ ~Exists(path)
        THEN [raised |-> TRUE, error |-> "Path does not exist", path |-> <<>>]
        ELSE [raised |-> FALSE, error |-> "", path |-> path]

Abs(segs) == [root |-> "/", segs |-> segs]

\* the paths that are validated
PathArgs ==
    {Abs(<<Seg("etc"), Seg("passwd")>>), Abs(<<Seg("etc")>>),
     Abs(<<Seg("usr"), Seg("local"), Seg("bin"), Seg("foo")>>),
     Abs(<<Seg("bin"), Seg("ls")>>), Abs(<<Seg("sbin"), Seg("x")>>),
     Abs(<<Seg("proc"), Seg("self"), Seg("status")>>), Abs(<<Seg("sys"), Seg("x")>>),
     Abs(<<Seg("var"), Seg("log"), Seg("syslog")>>),
     Abs(<<Seg("var"), Seg("run"), Seg("x")>>), Abs(<<Seg("var"), Seg("lib"), Seg("x")>>),
     Abs(<<Seg("var"), Seg("spool"), Seg("x")>>),
     Abs(<<Seg("var"), Seg("folders"), Seg("a.yaml")>>),
     Abs(<<Seg("private"), Seg("etc"), Seg("passwd")>>),
     Abs(<<Seg("private"), Seg("var"), Seg("log"), Seg("x")>>),
     Abs(<<Seg("private"), Seg("var"), Seg("db"), Seg("x")>>),
     Abs(<<Seg("private"), Seg("var"), Seg("lib"), Seg("x")>>),
     Abs(<<Seg("private"), Seg("usr"), Seg("x")>>),
     Abs(<<<<W("etc"), W("etera")>>, Seg("x")>>),
     Abs(<<<<W("etc"), W("etera")>>, Seg("a.yaml")>>),
     Abs(<<Seg("tmp"), Seg("a.yaml")>>), Abs(<<Seg("tmp"), Seg("missing.yaml")>>),
     Abs(<<Seg("tmp"), <<DOTDOT>>, Seg("etc"), Seg("passwd")>>),
     [root |-> "~", segs |-> <<Seg("test.yaml")>>],
     [root |-> "", segs |-> <<Seg("rel.yaml")>>],
     [root |-> "", segs |-> <<<<DOTDOT>>, Seg("usr"), Seg("x")>>]}

PathInit ==
    /\ files = [d \in StoreDirs |-> <<>>]
    /\ registry_file = [state |-> "missing", pids |-> <<>>]
    /\ last = NoCommand
    /\ call = NoCall

CallValidate ==
    \E layout \in Layouts, path_str \in PathArgs, must_exist \in BOOLEAN :
        /\ call.fn = "none"
        /\ call' = [fn |-> "_validate_file_path", layout |-> layout, path_str |-> path_str,
                    must_exist |-> must_exist,
                    resolved |-> Resolve(layout, path_str),
                    result |-> _validate_file_path(layout, path_str, must_exist)]
        /\ UNCHANGED <<files, registry_file, last>>

PathNext == CallValidate \/ Return

PathSpec == PathInit /\ [][PathNext]_vars

-----------------------------------------------------------------------------
(* The registry file in every condition, and the functions that read it.    *)

RegistryPlacements ==
    {<<PersonalDir("p1"), 1>>, <<PersonalDir("p2"), 1>>, <<GLOBAL_INHERITED_DIR, 5>>}

RegistryConditions ==
    RegistryFiles \cup {[state |-> "undecodable", pids |-> <<>>],
                         [state |-> "valid", pids |-> <<>>],
                         [state |-> "valid", pids |-> <<"p1", "p2">>]}

RegistryInit ==
    /\ \E S \in SUBSET RegistryPlacements : \E rev \in BOOLEAN :
          files = [d \in StoreDirs |-> Listing(S, d, 1, rev)]
    /\ registry_file \in RegistryConditions
    /\ last = NoCommand
    /\ call = NoCall

CallLoadRegistry ==
    /\ call.fn = "none"
    /\ call' = [fn |-> "load_registry",
                raised |-> LoadRegistryRaises,
                result |-> load_registry]
    /\ UNCHANGED <<files, registry_file, last>>

CallFindCross ==
    /\ call.fn = "none"
    /\ call' = [fn |-> "_find_cross_project_instincts",
                raised |-> LoadRegistryRaises,
                result |-> _find_cross_project_instincts]
    /\ UNCHANGED <<files, registry_file, last>>

\* a project detection, once the function called before has returned
DetectAfterReturn == call.fn = "none" /\ Detect

RegistryNext ==
    CallLoadRegistry \/ CallFindCross \/ DetectAfterReturn \/ PromoteAuto \/ Exit \/ Return

RegistrySpec == RegistryInit /\ [][RegistryNext]_vars

-----------------------------------------------------------------------------
(* Properties.  The records of the stores are read store by store, apart    *)
(* from the aggregator and the promoter they are properties of.             *)

ProjectRecords(f, pid) ==
    IF pid = "global" THEN <<>>
    ELSE LoadDirIn(f, PersonalDir(pid), PERSONAL, PROJECT)
         \o LoadDirIn(f, InheritedDir(pid), INHERITED, PROJECT)

GlobalRecords(f) ==
    LoadDirIn(f, GLOBAL_PERSONAL_DIR, PERSONAL, GLOBAL)
    \o LoadDirIn(f, GLOBAL_INHERITED_DIR, INHERITED, GLOBAL)

GlobalPersonalRecords(f) == LoadDirIn(f, GLOBAL_PERSONAL_DIR, PERSONAL, GLOBAL)

IdSet(recs) == {recs[k]["id"] : k \in 1..Len(recs)}

Occurrences(recs, iid) == {k \in 1..Len(recs) : recs[k]["id"] = iid}

PromoteOps == {"promote_specific", "promote_auto"}

\* C1: for every non-global project and every id that occurs both in a store
\* of the project and in a global store, the list load_all_instincts returns
\* has exactly one record with that id, and it is the project's record
\* (_scope_label = project).
Precedence ==
    \A pid \in Projects :
        LET merged == load_all_instincts(ProjectDict(pid), TRUE)
        IN  \A iid \in IdSet(ProjectRecords(files, pid)) \cap IdSet(GlobalRecords(files)) :
                /\ Cardinality(Occurrences(merged, iid)) = 1
                /\ \A k \in Occurrences(merged, iid) : merged[k]["_scope_label"] = PROJECT

\* C2: for every project, the global pseudo-project included, no two records
\* of the list load_all_instincts returns have the same id.
UniqueIds ==
    \A pid \in ProjectArgs :
        LET merged == load_all_instincts(ProjectDict(pid), TRUE)
        IN  \A j, k \in 1..Len(merged) : merged[j]["id"] = merged[k]["id"] => j = k

\* C3: every id in the result of _find_cross_project_instincts occurs in at
\* least 2 distinct registered projects.
CrossNeedsTwoProjects ==
    LET cross == _find_cross_project_instincts
    IN  \A k \in 1..Len(cross) :
            Cardinality({cross[k].entries[j].pid : j \in 1..Len(cross[k].entries)}) >= 2

\* the records of the stores of the registered projects, in registry order
RECURSIVE RegisteredRecords(_, _)
RegisteredRecords(f, pids) ==
    IF pids = <<>> THEN <<>>
    ELSE ProjectRecords(f, Head(pids)) \o RegisteredRecords(f, Tail(pids))

RECURSIVE RecordsWithId(_, _)
RecordsWithId(recs, iid) ==
    IF recs = <<>> THEN <<>>
    ELSE IF Head(recs)["id"] = iid THEN <<Head(recs)>> \o RecordsWithId(Tail(recs), iid)
    ELSE RecordsWithId(Tail(recs), iid)

FieldOr(rec, k, default) == IF k \in DOMAIN rec THEN rec[k] ELSE default

\* the confidence of a record; a record without one counts 0.5
ConfOf(rec) == FieldOr(rec, "confidence", FromRatio(1, 2))

\* the confidence as the decimal it was written as, in hundredths
IsDecimal(x) == \E k \in 0..100 : Hundredths[k] = x
Decimal(x) == CHOOSE k \in 0..100 : Hundredths[k] = x
AllDecimal(recs) == \A k \in 1..Len(recs) : IsDecimal(ConfOf(recs[k]))

RECURSIVE DecimalSum(_)
DecimalSum(recs) ==
    IF recs = <<>> THEN 0 ELSE Decimal(ConfOf(Head(recs))) + DecimalSum(Tail(recs))

\* the arithmetic mean of the confidences of recs is >= num/den
MeanAtLeast(recs, num, den) == den * DecimalSum(recs) >= num * Len(recs) * 100

\* x in units of 2^-20, cut
Millionths(x) == x[1] * 2^20 + x[2] * 2^4 + (x[3] \div 2^12)

\* the float x is the arithmetic mean of the confidences of recs, to six places
MeanIs(recs, x) ==
    LET diff == Millionths(x) * 100 * Len(recs) - DecimalSum(recs) * 2^20
    IN  diff <= 100 * Len(recs) /\ -diff <= 100 * Len(recs)

Selected(cmd, iid) == \E k \in 1..Len(cmd.candidates) : cmd.candidates[k] = iid

\* C4: an id of the stores of the registered projects, whose occurrences all
\* have a confidence written with two decimals, is selected by _promote_auto
\* if and only if no record of a global store has it, it has at least 2
\* occurrences, and the arithmetic mean of the confidences of all its
\* occurrences is >= 0.8.
ThresholdRule ==
    [][last'.op = "promote_auto" =>
        LET all == RegisteredRecords(files, load_registry)
        IN  \A iid \in IdSet(all) :
                LET occ == RecordsWithId(all, iid)
                IN  AllDecimal(occ) =>
                        (Selected(last', iid)
                            <=> /\ iid \notin IdSet(GlobalRecords(files))
                                /\ Len(occ) >= 2
                                /\ MeanAtLeast(occ, 4, 5))]_vars

\* C5: when _promote_auto runs with force and without dry-run, then for every
\* selected candidate the global personal store afterwards holds exactly one
\* record with the candidate's id; its trigger, domain and content are those
\* of an occurrence of highest confidence, its confidence is the mean over
\* all occurrences, its source is auto-promoted and its scope is global.
AutoPromotionResult ==
    [][(last'.op = "promote_auto" /\ last'.force /\ ~last'.dry_run) =>
        LET all == RegisteredRecords(files, load_registry)
            after == GlobalPersonalRecords(files')
        IN  \A c \in 1..Len(last'.candidates) :
                LET iid == last'.candidates[c]
                    occ == RecordsWithId(all, iid)
                    written == Occurrences(after, iid)
                IN  /\ Cardinality(written) = 1
                    /\ \A w \in written :
                        /\ \E b \in 1..Len(occ) :
                            /\ \A j \in 1..Len(occ) :
                                  FGeq(ConfOf(occ[b]), ConfOf(occ[j]))
                            /\ FieldOr(after[w], "trigger", <<>>)
                                  = FieldOr(occ[b], "trigger", <<W("unknown")>>)
                            /\ FieldOr(after[w], "domain", <<>>)
                                  = FieldOr(occ[b], "domain", <<W("general")>>)
                            /\ FieldOr(after[w], "content", <<>>)
                                  = FieldOr(occ[b], "content", <<>>)
                        /\ "confidence" \in DOMAIN after[w]
                        /\ AllDecimal(occ) => MeanIs(occ, after[w]["confidence"])
                        /\ FieldOr(after[w], "source", <<>>) = <<W("auto-promoted")>>
                        /\ FieldOr(after[w], "scope", <<>>) = GLOBAL]_vars

\* C6: when the id is in the project-only view and in no global store, the
\* forced _promote_specific returns 0 and the global personal store afterwards
\* holds exactly one record with that id, with the confidence and the content
\* of a source record of that id, scope global and promoted_from the project.
StraightCopy ==
    [][(/\ last'.op = "promote_specific" /\ last'.force
        /\ last'.id \in IdSet(ProjectRecords(files, last'.project))
        /\ last'.id \notin IdSet(GlobalRecords(files))) =>
        /\ last'.rc = 0
        /\ LET src == RecordsWithId(ProjectRecords(files, last'.project), last'.id)
               after == GlobalPersonalRecords(files')
               added == Occurrences(after, last'.id)
           IN  /\ Cardinality(added) = 1
               /\ \A w \in added :
                    /\ \E b \in 1..Len(src) :
                          /\ ConfOf(after[w]) = ConfOf(src[b])
                          /\ FieldOr(after[w], "content", <<>>) = FieldOr(src[b], "content", <<>>)
                    /\ FieldOr(after[w], "scope", <<>>) = GLOBAL
                    /\ FieldOr(after[w], "promoted_from", <<>>) = <<W(last'.project)>>]_vars

\* C7: when no record of the project-only view has the requested id,
\* _promote_specific returns 1 with the reason not found, raises nothing and
\* leaves every store as it was, also when a global store has the id.
SourceMissing ==
    [][(/\ last'.op = "promote_specific"
        /\ last'.id \notin IdSet(ProjectRecords(files, last'.project))) =>
        /\ last'.rc = 1 /\ last'.out = "not found" /\ ~last'.raised
        /\ files' = files]_vars

\* a promote-by-id was refused as not found for an id a global store holds
SourceMissingWitness ==
    /\ last.op = "promote_specific" /\ last.rc = 1 /\ last.out = "not found"
    /\ last.id \notin IdSet(ProjectRecords(files, last.project))
    /\ last.id \in IdSet(GlobalRecords(files))

\* C8: when the requested id is in the project-only view and a record of the
\* global personal or inherited store has exactly that id, _promote_specific
\* returns 1 with the reason already exists and leaves the global stores as
\* they were.
DestinationConflict ==
    [][(/\ last'.op = "promote_specific"
        /\ last'.id \in IdSet(ProjectRecords(files, last'.project))
        /\ last'.id \in IdSet(GlobalRecords(files))) =>
        /\ last'.rc = 1 /\ last'.out = "already exists"
        /\ \A d \in GlobalDirs : files'[d] = files[d]]_vars

\* a promote-by-id was refused because the global inherited store holds the id
DestinationConflictWitness ==
    /\ last.op = "promote_specific" /\ last.rc = 1 /\ last.out = "already exists"
    /\ last.id \in IdSet(ProjectRecords(files, last.project))
    /\ last.id \in IdSet(LoadDirIn(files, GLOBAL_INHERITED_DIR, INHERITED, GLOBAL))

\* C9: after any promote-by-id or auto-promotion the personal and inherited
\* stores of every project hold exactly the records they held before.
SourcesUntouched ==
    [][last'.op \in PromoteOps =>
        \A pid \in Projects : ProjectRecords(files', pid) = ProjectRecords(files, pid)]_vars

\* C10: _promote_auto with dry_run set returns 0 and leaves every store as it
\* was, whatever candidates it finds and whatever the force flag is.
DryRunWritesNothing ==
    [][(last'.op = "promote_auto" /\ last'.dry_run) =>
        /\ last'.rc = 0 /\ ~last'.raised
        /\ files' = files]_vars

\* a forced dry run has found candidates
DryRunWitness ==
    /\ last.op = "promote_auto" /\ last.dry_run /\ last.force
    /\ last.candidates # <<>> /\ last.rc = 0 /\ last.out = "DRY RUN"

-----------------------------------------------------------------------------
(* Properties of the loader and the aggregator, under LoaderSpec.           *)

StoreRank(rec) ==
    (IF rec["_scope_label"] = PROJECT THEN 0 ELSE 2)
    + (IF rec["_source_type"] = PERSONAL THEN 1 ELSE 2)

\* C12: in the sequence load_all_instincts returns no record stands before a
\* record of an earlier store (project personal, project inherited, global
\* personal, global inherited), the global records in it are those whose id
\* no project record has, and for the project 'global' the sequence is the
\* records of the two global stores, each once.
MergeOrder ==
    call.fn = "load_all_instincts" =>
        /\ \A j, k \in 1..Len(call.result) :
              j < k => StoreRank(call.result[j]) <= StoreRank(call.result[k])
        /\ \A k \in 1..Len(call.result) :
              StoreRank(call.result[k]) > 2 =>
                  call.result[k]["id"] \notin IdSet(ProjectRecords(files, call.project))
        /\ call.project = "global" => call.result = GlobalRecords(files)

\* a merged view with a record of each of the four stores
MergeOrderWitness ==
    /\ call.fn = "load_all_instincts" /\ call.project = "p1"
    /\ \A r \in 1..4 : \E k \in 1..Len(call.result) : StoreRank(call.result[k]) = r

\* the records of a sequence that carry the scope label project, in order
RECURSIVE ProjectLabelled(_)
ProjectLabelled(recs) ==
    IF recs = <<>> THEN <<>>
    ELSE IF Head(recs)["_scope_label"] = PROJECT
         THEN <<Head(recs)>> \o ProjectLabelled(Tail(recs))
         ELSE ProjectLabelled(Tail(recs))

\* C13: load_project_only_instincts returns exactly the project-labelled
\* records of load_all_instincts for the same project, in the same order, and
\* none of its records was read from a global store.
ProjectOnlyView ==
    call.fn = "load_project_only_instincts" =>
        /\ call.result = ProjectLabelled(LoadAllIn(files, ProjectDict(call.project), TRUE))
        /\ \A k \in 1..Len(call.result) :
              call.result[k]["_source_file"].dir \notin GlobalDirs

\* a project-only view that is shorter than the merged view: a global record
\* of another id is left out
ProjectOnlyViewWitness ==
    /\ call.fn = "load_project_only_instincts" /\ call.project = "p1"
    /\ Len(call.result) >= 2
    /\ Len(LoadAllIn(files, ProjectDict("p1"), TRUE)) > Len(call.result)

\* a line that, stripped, is the separator
IsSeparator(line) == Strip(line, Whitespace) = <<SEP>>

\* line i lies in a header: an odd number of separator lines stand before it
InHeader(lines, i) ==
    /\ ~IsSeparator(lines[i])
    /\ Cardinality({k \in 1..(i - 1) : IsSeparator(lines[k])}) % 2 = 1

\* the value of a header line 'key: value', without the surrounding blanks
ValueOf(line) == Strip(SubSeq(line, 3, Len(line)), Whitespace)
IsKeyLine(line, key) == Len(line) >= 2 /\ line[1] = W(key) /\ line[2] = COLON

\* the text has a header line for confidence whose value is not a number
HasBadConfidence(text) ==
    LET lines == Split(text, NL)
    IN  \E i \in 1..Len(lines) :
            /\ InHeader(lines, i) /\ IsKeyLine(lines[i], "confidence")
            /\ ~(Len(ValueOf(lines[i])) = 1 /\ IsNum(ValueOf(lines[i])[1]))

RECURSIVE GoodFiles(_)
GoodFiles(fs) ==
    IF fs = <<>> THEN <<>>
    ELSE IF HasBadConfidence(Head(fs).text) THEN GoodFiles(Tail(fs))
         ELSE <<Head(fs)>> \o GoodFiles(Tail(fs))

\* C17: parse_instinct_file raises for a text with a confidence header that
\* is not a number; _load_instincts_from_dir returns a list all the same, with
\* no record of such a file (also not of the valid blocks before the bad one)
\* and with every record of the other files of the directory.
FailureIsolated ==
    /\ (call.fn = "parse_instinct_file" /\ HasBadConfidence(call.content)) =>
           call.result.raised
    /\ (call.fn = "_load_instincts_from_dir" /\ call.directory \in DOMAIN files) =>
           /\ call.result = LoadFiles(call.directory, GoodFiles(files[call.directory]),
                                      call.source_type, call.scope_label)
           /\ \A k \in 1..Len(call.result) :
                 \A j \in 1..Len(files[call.directory]) :
                     files[call.directory][j].name = call.result[k]["_source_file"].name
                         => ~HasBadConfidence(files[call.directory][j].text)

\* a directory with a file of a bad confidence and a valid file was loaded
FailureIsolatedWitness ==
    /\ call.fn = "_load_instincts_from_dir" /\ call.directory \in DOMAIN files
    /\ \E j \in 1..Len(files[call.directory]) :
          HasBadConfidence(files[call.directory][j].text)
    /\ call.result # <<>>

\* the records the parser returns for the files of a listing, each with the
\* name of its file
RECURSIVE ParsedOf(_)
ParsedOf(fs) ==
    IF fs = <<>> THEN <<>>
    ELSE LET parsed == parse_instinct_file(Head(fs).text).instincts
         IN  [k \in 1..Len(parsed) |-> [name |-> Head(fs).name, inst |-> parsed[k]]]
             \o ParsedOf(Tail(fs))

ScopeDefaultedIn(result, parsed, directory, source_type, scope_label) ==
    /\ Len(result) = Len(parsed)
    /\ \A k \in 1..Len(result) :
          /\ result[k]["_source_file"] = [dir |-> directory, name |-> parsed[k].name]
          /\ result[k]["_source_type"] = source_type
          /\ result[k]["_scope_label"] = scope_label
          /\ result[k]["scope"] = IF "scope" \in DOMAIN parsed[k].inst
                                  THEN parsed[k].inst["scope"] ELSE scope_label
          /\ \A key \in DOMAIN parsed[k].inst : result[k][key] = parsed[k].inst[key]

\* C18: every record _load_instincts_from_dir returns carries the file it
\* was read from and the source kind and scope label of the call; its scope
\* is the label when the header had no scope key and the header's value
\* otherwise, also when that value is not the label.
ScopeDefaulting ==
    (call.fn = "_load_instincts_from_dir" /\ call.directory \in DOMAIN files) =>
        ScopeDefaultedIn(call.result, ParsedOf(files[call.directory]), call.directory,
                         call.source_type, call.scope_label)

\* a record with the header scope global was loaded with the label project,
\* next to a record without a scope header
ScopeDefaultingWitness ==
    /\ call.fn = "_load_instincts_from_dir" /\ call.scope_label = PROJECT
    /\ \E k \in 1..Len(call.result) : call.result[k]["scope"] = GLOBAL
    /\ \E k \in 1..Len(call.result) :
          /\ call.result[k]["scope"] = PROJECT
          /\ call.result[k]["_source_file"].name \in {FileY.name, FileB.name}

-----------------------------------------------------------------------------
(* Properties of the parser, under ParserSpec.                              *)

\* the text has a line that, stripped, is the separator
HasSeparator(text) == \E i \in 1..Len(Split(text, NL)) : IsSeparator(Split(text, NL)[i])

\* C19: for a text without a separator line, the empty text included,
\* parse_instinct_file returns the empty list and raises nothing; for a
\* directory that does not exist _load_instincts_from_dir returns the empty
\* list.
NoDelimiters ==
    /\ (call.fn = "parse_instinct_file" /\ ~HasSeparator(call.content)) =>
           call.result = [raised |-> FALSE, instincts |-> <<>>]
    /\ (call.fn = "_load_instincts_from_dir" /\ call.directory \notin DOMAIN files) =>
           call.result = <<>>

\* a text of header-like lines without a separator was parsed
NoDelimitersWitness ==
    /\ call.fn = "parse_instinct_file" /\ ~HasSeparator(call.content)
    /\ \E i \in 1..Len(Split(call.content, NL)) :
          IsKeyLine(Split(call.content, NL)[i], "id")

\* The blocks of a text, told by its separator lines: block k runs from the
\* separator line 2k-1 to the line before the separator line 2k+1; its header
\* lies between its two separator lines, its content after the second one.
SepsUpTo(lines, i) == Cardinality({k \in 1..i : IsSeparator(lines[k])})
BlockOf(lines, i) == (SepsUpTo(lines, i) + 1) \div 2
NBlocks(lines) == BlockOf(lines, Len(lines))
HeaderAt(lines, k) ==
    {i \in 1..Len(lines) : ~IsSeparator(lines[i]) /\ SepsUpTo(lines, i) = 2 * k - 1}
ContentAt(lines, k) ==
    {i \in 1..Len(lines) : ~IsSeparator(lines[i]) /\ SepsUpTo(lines, i) = 2 * k}

\* the id of a header line 'id: value', without blanks and quotes around it
IdValue(line) == Strip(Strip(ValueOf(line), {DQ}), {SQ})
IdLinesAt(lines, k) ==
    {i \in HeaderAt(lines, k) : IsKeyLine(lines[i], "id") /\ IdValue(lines[i]) # <<>>}
HasId(lines, k) == IdLinesAt(lines, k) # {}

\* the block of every line, and the blocks that have an id
BlockIndex(lines) == SubSeq([i \in 1..Len(lines) |-> BlockOf(lines, i)], 1, Len(lines))
BlocksWithId(lines) == {k \in 1..NBlocks(lines) : HasId(lines, k)}

\* the ids of the blocks k..n that have one, in the order of the text
RECURSIVE BlockIds(_, _, _, _)
BlockIds(lines, with_id, n, k) ==
    IF k > n THEN <<>>
    ELSE IF k \in with_id
         THEN <<IdValue(lines[CHOOSE i \in IdLinesAt(lines, k) : TRUE])>>
              \o BlockIds(lines, with_id, n, k + 1)
         ELSE BlockIds(lines, with_id, n, k + 1)

\* the lines i.. of a text without the lines of the blocks that have no id
RECURSIVE WithoutIdless(_, _, _, _)
WithoutIdless(lines, block, with_id, i) ==
    IF i > Len(lines) THEN <<>>
    ELSE IF block[i] = 0 \/ block[i] \in with_id
         THEN <<lines[i]>> \o WithoutIdless(lines, block, with_id, i + 1)
         ELSE WithoutIdless(lines, block, with_id, i + 1)

DropsIdlessIn(lines, block, with_id, instincts) ==
    /\ \A k \in 1..Len(instincts) : Get(instincts[k], "id", <<>>) # <<>>
    /\ [k \in 1..Len(instincts) |-> Get(instincts[k], "id", <<>>)]
          = BlockIds(lines, with_id, NBlocks(lines), 1)
    /\ instincts
          = parse_instinct_file(Join(WithoutIdless(lines, block, with_id, 1), NL)).instincts

DropsIdless(lines, instincts) ==
    DropsIdlessIn(lines, BlockIndex(lines), BlocksWithId(lines), instincts)

\* C14: parse_instinct_file raises nothing for a block whose header has no id
\* key or an empty id and returns no record for it; the records it returns
\* are those of the blocks with an id, in the order of the text, each as it
\* is parsed from the text without the dropped blocks; every record has a
\* non-empty id.
DropOnMissingId ==
    call.fn = "parse_instinct_file" =>
        /\ ~call.result.raised
        /\ DropsIdless(Split(call.content, NL), call.result.instincts)

\* a text was parsed in which a block without id, with content, stands
\* between two blocks with an id
DropOnMissingIdWitness ==
    /\ call.fn = "parse_instinct_file"
    /\ Len(call.result.instincts) = 2
    /\ LET lines == Split(call.content, NL)
       IN  /\ NBlocks(lines) = 3
           /\ HasId(lines, 1) /\ ~HasId(lines, 2) /\ HasId(lines, 3)
           /\ HeaderAt(lines, 2) # {} /\ ContentAt(lines, 2) # {}

\* the text between the closing separator of block k and the next separator
\* line (or the end of the text), trimmed
ContentText(lines, at) ==
    IF at = {} THEN <<>>
    ELSE Strip(Join(SubSeq(lines, CHOOSE i \in at : \A j \in at : i <= j,
                           CHOOSE i \in at : \A j \in at : i >= j), NL), Whitespace)

\* C16: for a text of n complete blocks that each have an id,
\* parse_instinct_file returns n records in the order of the text, and the
\* content of record k is the trimmed text between the closing separator of
\* block k and the opening separator of block k+1 or the end of the text.
MultipleBlocks ==
    LET lines == Split(call.content, NL)
    IN  (/\ call.fn = "parse_instinct_file"
         /\ SepsUpTo(lines, Len(lines)) = 2 * NBlocks(lines)
         /\ \A k \in 1..NBlocks(lines) : HasId(lines, k)) =>
            /\ ~call.result.raised
            /\ Len(call.result.instincts) = NBlocks(lines)
            /\ \A k \in 1..Len(call.result.instincts) :
                  /\ call.result.instincts[k]["id"]
                        = IdValue(lines[CHOOSE i \in IdLinesAt(lines, k) : TRUE])
                  /\ call.result.instincts[k]["content"]
                        = ContentText(lines, ContentAt(lines, k))

\* a text of three blocks with ids was parsed, the ones with content next to
\* one without
MultipleBlocksWitness ==
    LET lines == Split(call.content, NL)
    IN  /\ call.fn = "parse_instinct_file"
        /\ SepsUpTo(lines, Len(lines)) = 6
        /\ \A k \in 1..3 : HasId(lines, k)
        /\ Len(call.result.instincts) = 3
        /\ call.result.instincts[1]["content"] # <<>>
        /\ call.result.instincts[2]["content"] = <<>>
        /\ call.result.instincts[3]["content"] # <<>>

\* the fields a reader of a record sees: dict.get with the defaults of the
\* program
Fields(inst) ==
    [id |-> Get(inst, "id", <<>>),
     trigger |-> Get(inst, "trigger", <<W("unknown")>>),
     confidence |-> Get(inst, "confidence", DefaultConfidence),
     domain |-> Get(inst, "domain", <<W("general")>>),
     content |-> Get(inst, "content", <<>>)]

\* C15: the text that cmd_export, _promote_specific or cmd_import writes for
\* a record of a store parses back to one record with the same id, trigger,
\* confidence, domain and content.
RoundTrip ==
    call.fn = "serialize" =>
        /\ ~call.result.raised
        /\ Len(call.result.instincts) = 1
        /\ Fields(call.result.instincts[1]) = Fields(call.inst)

-----------------------------------------------------------------------------
(* Properties of the cluster analysis, under EvolveSpec.                    *)

\* the records of a sequence that share the normalized trigger of record k
Sharing(instincts, k) ==
    {j \in 1..Len(instincts) : TriggerKey(instincts[j]) = TriggerKey(instincts[k])}

\* the cluster of record k is among the skill candidates
Reported(candidates, instincts, k) ==
    \E c \in 1..Len(candidates) :
        /\ candidates[c].trigger = TriggerKey(instincts[k])
        /\ \E j \in 1..Len(candidates[c].instincts) :
              candidates[c].instincts[j] = instincts[k]

\* C20 as stated: whatever the number of records, the cluster of a record is
\* reported as a skill candidate if and only if it has at least 2 members.
ClusterQualification ==
    call.fn = "cmd_evolve" =>
        \A k \in 1..Len(call.instincts) :
            Reported(call.result.skill_candidates, call.instincts, k)
                <=> Cardinality(Sharing(call.instincts, k)) >= 2

\* C20, amended: when the merged sequence has at least 3 records, the
\* cluster of a record is reported as a skill candidate if and only if it has
\* at least 2 members; with fewer than 3 records the analysis is refused with
\* return code 1 and no cluster is reported.
ClusterQualificationFromThree ==
    call.fn = "cmd_evolve" =>
        IF Len(call.instincts) < 3
        THEN call.result.rc = 1 /\ call.result.skill_candidates = <<>>
        ELSE /\ call.result.rc = 0
             /\ \A k \in 1..Len(call.instincts) :
                   Reported(call.result.skill_candidates, call.instincts, k)
                       <=> Cardinality(Sharing(call.instincts, k)) >= 2

\* an analysis of at least 3 records with a cluster of 2 that is reported and
\* a cluster of 1 that is not
ClusterQualificationWitness ==
    /\ call.fn = "cmd_evolve" /\ Len(call.instincts) >= 3
    /\ \E k \in 1..Len(call.instincts) :
          /\ Cardinality(Sharing(call.instincts, k)) = 2
          /\ Reported(call.result.skill_candidates, call.instincts, k)
    /\ \E k \in 1..Len(call.instincts) :
          /\ Cardinality(Sharing(call.instincts, k)) = 1
          /\ ~Reported(call.result.skill_candidates, call.instincts, k)

\* a trigger without the keywords that stand as whole words in it: a piece
\* goes when it is a keyword with a blank or an end of the text on both sides
WholeWordAt(s, i) ==
    /\ \E k \in 1..Len(Keywords) : s[i] = W(Keywords[k])
    /\ (i = 1 \/ s[i - 1] \in Whitespace)
    /\ (i = Len(s) \/ s[i + 1] \in Whitespace)

RECURSIVE WithoutWords(_, _)
WithoutWords(s, i) ==
    IF i > Len(s) THEN <<>>
    ELSE IF WholeWordAt(s, i) THEN WithoutWords(s, i + 1)
    ELSE <<s[i]>> \o WithoutWords(s, i + 1)

WholeWordKey(trigger) == Strip(WithoutWords(Lower(trigger), 1), Whitespace)

\* C21: the cluster key of every record is its trigger in lower case without
\* the keywords when, creating, writing, adding, implementing, testing where
\* they stand as whole words, trimmed; a word that only contains a keyword
\* stays as it is.
WholeWordNormalization ==
    call.fn = "cmd_evolve" =>
        \A c \in 1..Len(call.result.trigger_clusters) :
            \A k \in 1..Len(call.result.trigger_clusters[c].instincts) :
                call.result.trigger_clusters[c].trigger
                    = WholeWordKey(Get(call.result.trigger_clusters[c].instincts[k],
                                       "trigger", <<>>))

\* the members of seq at the positions S, in the order of seq
RECURSIVE Pick(_, _, _)
Pick(seq, S, k) ==
    IF k > Len(seq) THEN <<>>
    ELSE (IF k \in S THEN <<seq[k]>> ELSE <<>>) \o Pick(seq, S, k + 1)

\* candidate a has a higher mean confidence than candidate b
HigherMean(a, b) ==
    DecimalSum(a.instincts) * Len(b.instincts) > DecimalSum(b.instincts) * Len(a.instincts)

AgentQualification ==
    call.fn = "cmd_evolve" =>
        LET cs == call.result.skill_candidates
        IN  call.result.agent_candidates
                = Pick(cs, {c \in 1..Len(cs) : /\ Len(cs[c].instincts) >= 3
                                               /\ MeanAtLeast(cs[c].instincts, 3, 4)}, 1)

-----------------------------------------------------------------------------
(* Properties of the registry, under RegistrySpec.                          *)

\* the registry file holds no registry: it is not there or it is no JSON
NoRegistry == registry_file.state \in {"missing", "corrupt", "undecodable"}

\* C26: load_registry returns the empty registry without raising when the
\* registry file is absent or is not valid JSON, and the stored mapping when
\* it is valid; with an empty registry _find_cross_project_instincts finds
\* nothing and _promote_auto promotes nothing and returns 0.
RegistryFallback ==
    /\ call.fn = "load_registry" =>
          /\ ~call.raised
          /\ call.result = IF NoRegistry THEN <<>> ELSE registry_file.pids
    /\ call.fn = "_find_cross_project_instincts"
          /\ (NoRegistry \/ registry_file.pids = <<>>) =>
              ~call.raised /\ call.result = <<>>
    /\ last.op = "promote_auto" /\ (NoRegistry \/ registry_file.pids = <<>>) =>
          ~last.raised /\ last.rc = 0 /\ last.promoted = 0
              /\ last.out = "No instincts qualify"

-----------------------------------------------------------------------------
(* Properties of the promotions as writers of the global stores, under Spec. *)

\* record rec is among recs, field by field, with the file it was read from
Holds(recs, rec) == \E j \in 1..Len(recs) : recs[j] = rec

\* C28: after any promote-by-id or auto-promotion every record the global
\* personal or inherited store held before is still there with the same
\* fields, also when a global personal file named after the promoted id
\* held other ids.
DestinationKept ==
    [][last'.op \in PromoteOps =>
        \A k \in 1..Len(GlobalRecords(files)) :
            Holds(GlobalRecords(files'), GlobalRecords(files)[k])]_vars

\* the ids a finished promotion has promoted
PromotedIds(cmd) ==
    IF cmd.out # "Promoted" \/ cmd.raised THEN {}
    ELSE IF cmd.op = "promote_specific" THEN {cmd.id}
    ELSE {cmd.candidates[k] : k \in 1..Len(cmd.candidates)}

\* in storage f a promote-by-id of x, from a project that holds x, fails with
\* 'already exists', and an auto-promotion leaves x out; neither writes x
RefusedIn(f, pids, x) ==
    /\ \A pid \in ProjectArgs :
          x \in IdsOf(LoadProjectOnlyIn(f, ProjectDict(pid))) =>
              \A o \in _promote_specific(f, pid, x, TRUE) :
                  o.last.rc = 1 /\ o.last.out = "already exists" /\ o.f = f
    /\ \A summation \in Summations :
          \A o \in _promote_auto(f, pids, TRUE, FALSE, summation) :
              \A k \in 1..Len(o.last.candidates) : o.last.candidates[k] # x

-----------------------------------------------------------------------------
(* Properties of the import, under ImportSpec.                              *)

\* the record of the imported file with id inst_id wins over the first
\* existing record with that id: its confidence is higher, a record without
\* confidence counting 0.5 on both sides
WinsByClaim(inst, existing) ==
    Decimal(ConfOf(inst)) > Decimal(ConfOf(FirstWithId(existing, Get(inst, "id", <<>>))))

\* C25: a record without confidence counts 0.5 wherever confidences are
\* compared; in the update-or-skip decision of the import an imported record
\* whose id exists is an update if and only if its confidence, 0.5 when it
\* has none, is higher than that of the existing record, 0.5 when that has
\* none, and a duplicate otherwise.
AbsentCountsHalf ==
    call.fn = "cmd_import" =>
        /\ \A k \in 1..Len(call.sorted.to_update) :
              WinsByClaim(call.sorted.to_update[k], call.existing)
        /\ \A k \in 1..Len(call.sorted.duplicates) :
              ~WinsByClaim(call.sorted.duplicates[k], call.existing)

\* C30: from stores in which every id is unique within each project and
\* within the global stores, after any sequence of imports, promotions by id
\* and auto-promotions load_all_instincts returns every id at most once,
\* for every project.
ImportKeepsIdsUnique ==
    \A pid \in ProjectArgs :
        \A j, k \in 1..Len(load_all_instincts(ProjectDict(pid), TRUE)) :
            Get(load_all_instincts(ProjectDict(pid), TRUE)[j], "id", <<>>)
                = Get(load_all_instincts(ProjectDict(pid), TRUE)[k], "id", <<>>) => j = k

-----------------------------------------------------------------------------
(* Properties of the path validation, under PathSpec.                       *)

\* the system directories of the guard
SystemDirs ==
    {<<Seg("etc")>>, <<Seg("usr")>>, <<Seg("bin")>>, <<Seg("sbin")>>, <<Seg("proc")>>,
     <<Seg("sys")>>, <<Seg("var"), Seg("log")>>, <<Seg("var"), Seg("run")>>,
     <<Seg("var"), Seg("lib")>>, <<Seg("var"), Seg("spool")>>}

\* the system directories and the same directories below /private
BlockedDirs == SystemDirs \cup {<<Seg("private")>> \o d : d \in SystemDirs}

\* the path is a blocked directory or lies below one, segment by segment
InBlockedDir(resolved) ==
    \E d \in BlockedDirs : Len(resolved) >= Len(d) /\ SubSeq(resolved, 1, Len(d)) = d

\* C27: _validate_file_path raises for every path whose resolved form is a
\* blocked system directory, or one of them below /private, or lies below
\* one; it raises when must_exist is set and the resolved path does not
\* exist; in every other case it returns the resolved path, also for a path
\* whose first name only begins like a blocked directory.
PathGuard ==
    call.fn = "_validate_file_path" =>
        IF InBlockedDir(call.resolved) \/ (call.must_exist /\ ~Exists(call.resolved))
        THEN call.result.raised
        ELSE ~call.result.raised /\ call.result.path = call.resolved

====
